---- MODULE Spec2Model ----
(***************************************************************************)
(* Asset migration and consistency-verification engine of Iwate150v2:      *)
(* scripts/migrate_storage_assets.ts, scripts/verify_storage_links.ts      *)
(* (both in src/unnamed/part_000) and the storage helpers of               *)
(* src/src/lib/types.ts.                                                   *)
(*                                                                         *)
(* Strings are sequences of Unicode code points (naturals).  Lone          *)
(* surrogates are outside the modelled alphabet.                           *)
(***************************************************************************)
EXTENDS Integers, Sequences, FiniteSets, TLC

(***************************************************************************)
(* Characters and string built-ins of the JavaScript runtime               *)
(***************************************************************************)
Ch == [slash |-> 47, pct |-> 37, dot |-> 46, dash |-> 45, under |-> 95,
       space |-> 32, u |-> 117, zero |-> 48, nine |-> 57,
       upA |-> 65, upF |-> 70, upZ |-> 90, loA |-> 97, loF |-> 102, loZ |-> 122]

\* String.prototype.split("/"): the pieces between the slashes, empty ones kept
RECURSIVE SplitFrom(_, _, _)
SplitFrom(s, i, cur) ==
  IF i > Len(s) THEN <<cur>>
  ELSE IF s[i] = Ch.slash THEN <<cur>> \o SplitFrom(s, i + 1, <<>>)
  ELSE SplitFrom(s, i + 1, Append(cur, s[i]))

Split(s) == SplitFrom(s, 1, <<>>)

\* Array.prototype.filter(Boolean) on strings: the empty string is falsy
FilterBoolean(segs) == SelectSeq(segs, LAMBDA x : Len(x) > 0)

\* Array.prototype.join("/")
RECURSIVE Join(_)
Join(segs) ==
  IF Len(segs) = 0 THEN <<>>
  ELSE IF Len(segs) = 1 THEN segs[1]
  ELSE segs[1] \o <<Ch.slash>> \o Join(Tail(segs))

\* value of a hexadecimal digit, -1 for any other character
HexVal(c) ==
  IF c >= Ch.zero /\ c <= Ch.nine THEN c - Ch.zero
  ELSE IF c >= Ch.upA /\ c <= Ch.upF THEN c - Ch.upA + 10
  ELSE IF c >= Ch.loA /\ c <= Ch.loF THEN c - Ch.loA + 10
  ELSE -1

\* the byte written %XY at position k of s, -1 when s has no such escape there
EscapeAt(s, k) ==
  IF k + 2 > Len(s) \/ s[k] # Ch.pct THEN -1
  ELSE IF HexVal(s[k + 1]) < 0 \/ HexVal(s[k + 2]) < 0 THEN -1
  ELSE HexVal(s[k + 1]) * 16 + HexVal(s[k + 2])

\* number of bytes of the UTF-8 sequence a lead byte announces (0: not a lead byte)
Utf8Length(b) ==
  IF b < 128 THEN 1
  ELSE IF b >= 192 /\ b < 224 THEN 2
  ELSE IF b >= 224 /\ b < 240 THEN 3
  ELSE IF b >= 240 /\ b < 248 THEN 4
  ELSE 0

IsContinuation(b) == b >= 128 /\ b < 192

\* code point of a well-formed UTF-8 sequence, -1 for a malformed one
\* (bad continuation byte, overlong form, surrogate, beyond U+10FFFF)
Utf8CodePoint(bytes) ==
  LET n == Len(bytes) IN
  IF n = 1 THEN bytes[1]
  ELSE IF \E i \in 2..n : ~IsContinuation(bytes[i]) THEN -1
  ELSE LET cp == IF n = 2 THEN (bytes[1] - 192) * 64 + (bytes[2] - 128)
                 ELSE IF n = 3 THEN (bytes[1] - 224) * 4096 + (bytes[2] - 128) * 64
                                    + (bytes[3] - 128)
                 ELSE (bytes[1] - 240) * 262144 + (bytes[2] - 128) * 4096
                      + (bytes[3] - 128) * 64 + (bytes[4] - 128)
           lo == IF n = 2 THEN 128 ELSE IF n = 3 THEN 2048 ELSE 65536
       IN IF cp < lo \/ cp > 1114111 \/ (cp >= 55296 /\ cp <= 57343) THEN -1 ELSE cp

\* decodeURIComponent: [ok |-> TRUE, val |-> decoded] or, where the built-in
\* throws URIError, [ok |-> FALSE, val |-> <<>>]
RECURSIVE DecodeFrom(_, _, _)
DecodeFrom(s, k, acc) ==
  IF k > Len(s) THEN [ok |-> TRUE, val |-> acc]
  ELSE IF s[k] # Ch.pct THEN DecodeFrom(s, k + 1, Append(acc, s[k]))
  ELSE
    LET b == EscapeAt(s, k)
        n == IF b < 0 THEN 0 ELSE Utf8Length(b)
    IN IF n = 0 THEN [ok |-> FALSE, val |-> <<>>]
       ELSE IF k + 3 * n - 1 > Len(s) THEN [ok |-> FALSE, val |-> <<>>]
       ELSE LET bytes == [j \in 1..n |-> EscapeAt(s, k + 3 * (j - 1))]
                cp == IF \E j \in 1..n : bytes[j] < 0 THEN -1 ELSE Utf8CodePoint(bytes)
            IN IF cp < 0 THEN [ok |-> FALSE, val |-> <<>>]
               ELSE DecodeFrom(s, k + 3 * n, Append(acc, cp))

decodeURIComponent(s) == DecodeFrom(s, 1, <<>>)

\* TextEncoder.encode of one code point: its UTF-8 bytes
Utf8Bytes(cp) ==
  IF cp < 128 THEN <<cp>>
  ELSE IF cp < 2048 THEN <<192 + (cp \div 64), 128 + (cp % 64)>>
  ELSE IF cp < 65536
    THEN <<224 + (cp \div 4096), 128 + ((cp \div 64) % 64), 128 + (cp % 64)>>
  ELSE <<240 + (cp \div 262144), 128 + ((cp \div 4096) % 64),
         128 + ((cp \div 64) % 64), 128 + (cp % 64)>>

\* value.toString(16): one lowercase hexadecimal digit
HexDigit(d) == IF d < 10 THEN Ch.zero + d ELSE Ch.loA + d - 10

\* value.toString(16).padStart(2, "0") of a byte
HexByte(b) == <<HexDigit(b \div 16), HexDigit(b % 16)>>

\* Array.from(new TextEncoder().encode(segment)).map(hex).join("")
RECURSIVE HexOfUtf8(_)
HexOfUtf8(seg) ==
  IF Len(seg) = 0 THEN <<>>
  ELSE LET bytes == Utf8Bytes(seg[1])
       IN HexByte(bytes[1])
          \o (IF Len(bytes) > 1 THEN HexByte(bytes[2]) ELSE <<>>)
          \o (IF Len(bytes) > 2 THEN HexByte(bytes[3]) ELSE <<>>)
          \o (IF Len(bytes) > 3 THEN HexByte(bytes[4]) ELSE <<>>)
          \o HexOfUtf8(Tail(seg))

\* a character of the class [A-Za-z0-9._-]
SafeChar(c) ==
  \/ c >= Ch.upA /\ c <= Ch.upZ
  \/ c >= Ch.loA /\ c <= Ch.loZ
  \/ c >= Ch.zero /\ c <= Ch.nine
  \/ c \in {Ch.dot, Ch.under, Ch.dash}

(***************************************************************************)
(* Path canonicalizer, copy of scripts/migrate_storage_assets.ts           *)
(***************************************************************************)
ASCII_SAFE_SEGMENT(segment) ==
  Len(segment) > 0 /\ \A i \in 1..Len(segment) : SafeChar(segment[i])

\* mutant: the safe class also admits "%"
toAsciiSafeStorageSegment_PercentSafe(segment) ==
  IF Len(segment) > 0
     /\ \A i \in 1..Len(segment) : SafeChar(segment[i]) \/ segment[i] = Ch.pct
  THEN segment
  ELSE <<Ch.u>> \o HexOfUtf8(segment)

toAsciiSafeStorageSegment(segment) ==
  IF ASCII_SAFE_SEGMENT(segment) THEN segment
  ELSE <<Ch.u>> \o HexOfUtf8(segment)

\* mutant: a segment that does not decode is dropped instead of kept raw
decodeURIComponentSafe_EmptyOnFailure(value) ==
  LET r == decodeURIComponent(value) IN IF r.ok THEN r.val ELSE <<>>

decodeURIComponentSafe(value) ==
  LET r == decodeURIComponent(value) IN IF r.ok THEN r.val ELSE value

toUploadKey(storagePath) ==
  LET segs == FilterBoolean(Split(storagePath))
  IN Join([i \in 1..Len(segs) |->
             toAsciiSafeStorageSegment(decodeURIComponentSafe(segs[i]))])

(***************************************************************************)
(* Path canonicalizer, copy of scripts/verify_storage_links.ts             *)
(***************************************************************************)
verify_ASCII_SAFE_SEGMENT(segment) ==
  Len(segment) > 0 /\ \A i \in 1..Len(segment) : SafeChar(segment[i])

verify_toAsciiSafeStorageSegment(segment) ==
  IF verify_ASCII_SAFE_SEGMENT(segment) THEN segment
  ELSE <<Ch.u>> \o HexOfUtf8(segment)

\* mutant: the verifier's copy does not percent-decode
verify_decodeURIComponentSafe_NoDecode(value) == value

verify_decodeURIComponentSafe(value) ==
  LET r == decodeURIComponent(value) IN IF r.ok THEN r.val ELSE value

canonicalizeStorageKey(storagePath) ==
  LET segs == FilterBoolean(Split(storagePath))
  IN Join([i \in 1..Len(segs) |->
             verify_toAsciiSafeStorageSegment(verify_decodeURIComponentSafe(segs[i]))])

(***************************************************************************)
(* Path canonicalizer, copy of src/lib/types.ts                            *)
(***************************************************************************)
types_ASCII_SAFE_SEGMENT(segment) ==
  Len(segment) > 0 /\ \A i \in 1..Len(segment) : SafeChar(segment[i])

types_toAsciiSafeStorageSegment(segment) ==
  IF types_ASCII_SAFE_SEGMENT(segment) THEN segment
  ELSE <<Ch.u>> \o HexOfUtf8(segment)

types_decodeURIComponentSafe(value) ==
  LET r == decodeURIComponent(value) IN IF r.ok THEN r.val ELSE value

encodeStoragePath(path) ==
  LET segs == FilterBoolean(Split(path))
  IN Join([i \in 1..Len(segs) |->
             types_toAsciiSafeStorageSegment(types_decodeURIComponentSafe(segs[i]))])

(***************************************************************************)
(* Asset manifest builder (scripts/migrate_storage_assets.ts)              *)
(***************************************************************************)
\* String.prototype.startsWith
StartsWith(s, p) == Len(s) >= Len(p) /\ SubSeq(s, 1, Len(p)) = p

\* String.prototype.lastIndexOf for one character, 1-based, 0 when absent
LastIndexOf(s, c) ==
  IF \E i \in 1..Len(s) : s[i] = c
  THEN CHOOSE i \in 1..Len(s) : s[i] = c /\ \A j \in (i + 1)..Len(s) : s[j] # c
  ELSE 0

\* path.basename
basename(p) == SubSeq(p, LastIndexOf(p, Ch.slash) + 1, Len(p))

\* path.extname: from the last dot of the basename, "" when there is none or
\* the basename starts with it
extname(p) ==
  LET b == basename(p)
      i == LastIndexOf(b, Ch.dot)
  IN IF i <= 1 THEN <<>> ELSE SubSeq(b, i, Len(b))

\* String.prototype.toLowerCase on the ASCII letters
toLowerCase(s) ==
  [i \in 1..Len(s) |->
     IF s[i] >= Ch.upA /\ s[i] <= Ch.upZ THEN s[i] - Ch.upA + Ch.loA ELSE s[i]]

\* the extension literals
EXT == [jpg |-> <<46, 106, 112, 103>>, jpeg |-> <<46, 106, 112, 101, 103>>, png |-> <<46, 112, 110, 103>>, webp |-> <<46, 119, 101, 98, 112>>,
        gif |-> <<46, 103, 105, 102>>, svg |-> <<46, 115, 118, 103>>, obj |-> <<46, 111, 98, 106>>, mtl |-> <<46, 109, 116, 108>>,
        fbx |-> <<46, 102, 98, 120>>, glb |-> <<46, 103, 108, 98>>, gltf |-> <<46, 103, 108, 116, 102>>]

IMAGE_EXTENSIONS == {EXT.jpg, EXT.jpeg, EXT.png, EXT.webp, EXT.gif, EXT.svg}

MODEL_EXTENSIONS == {EXT.obj, EXT.mtl, EXT.fbx, EXT.glb, EXT.gltf}

isImage(filePath) == toLowerCase(extname(filePath)) \in IMAGE_EXTENSIONS

isModel(filePath) == toLowerCase(extname(filePath)) \in MODEL_EXTENSIONS

STR_images == <<105, 109, 97, 103, 101, 115, 47>>           \* "images/"
STR_models == <<109, 111, 100, 101, 108, 115, 47>>           \* "models/"
STR_images_thumb == <<105, 109, 97, 103, 101, 115, 47, 116, 104, 117, 109, 98, 47>>   \* "images/thumb/"
STR_city_images == <<99, 105, 116, 121, 95, 105, 109, 97, 103, 101, 115, 47>>     \* "city_images/"
STR_genre_images == <<103, 101, 110, 114, 101, 95, 105, 109, 97, 103, 101, 115, 47>>   \* "genre_images/"
STR_spot_images == <<115, 112, 111, 116, 95, 105, 109, 97, 103, 101, 115, 47>>     \* "spot_images/"
STR_wanko == <<119, 97, 110, 107, 111, 46, 112, 110, 103>>              \* "wanko.png"
STR_images_cities == <<105, 109, 97, 103, 101, 115, 47, 99, 105, 116, 105, 101, 115, 47>> \* "images/cities/"
STR_images_genres == <<105, 109, 97, 103, 101, 115, 47, 103, 101, 110, 114, 101, 115, 47>> \* "images/genres/"
STR_images_spots == <<105, 109, 97, 103, 101, 115, 47, 115, 112, 111, 116, 115, 47>>   \* "images/spots/"
STR_images_other == <<105, 109, 97, 103, 101, 115, 47, 111, 116, 104, 101, 114, 47>>   \* "images/other/"

\* the name, with a trailing slash, of the directory a file lies in directly
ParentDirName(rel) ==
  LET i == LastIndexOf(rel, Ch.slash)
  IN IF i = 0 THEN <<>> ELSE basename(SubSeq(rel, 1, i - 1)) \o <<Ch.slash>>

\* mutant: the rule table is looked up by the immediate parent directory
mapLegacyImageToStoragePath_ByParent(rel) ==
  IF ParentDirName(rel) = STR_city_images THEN STR_images_cities \o basename(rel)
  ELSE IF ParentDirName(rel) = STR_genre_images THEN STR_images_genres \o basename(rel)
  ELSE IF ParentDirName(rel) = STR_spot_images THEN STR_images_spots \o basename(rel)
  ELSE STR_images_other \o basename(rel)

\* rel is the path relative to legacy/flask_app/static/images
mapLegacyImageToStoragePath(rel) ==
  IF StartsWith(rel, STR_city_images) THEN STR_images_cities \o basename(rel)
  ELSE IF StartsWith(rel, STR_genre_images) THEN STR_images_genres \o basename(rel)
  ELSE IF StartsWith(rel, STR_spot_images) THEN STR_images_spots \o basename(rel)
  ELSE IF rel = STR_wanko THEN STR_images_other \o STR_wanko
  ELSE STR_images_other \o basename(rel)

\* Map<string, AssetItem>: the entries in insertion order
MapHas(m, k) == \E i \in 1..Len(m) : m[i].key = k

MapGet(m, k) == m[CHOOSE i \in 1..Len(m) : m[i].key = k].value

MapSet(m, k, v) ==
  IF MapHas(m, k)
  THEN [i \in 1..Len(m) |-> IF m[i].key = k THEN [key |-> k, value |-> v] ELSE m[i]]
  ELSE Append(m, [key |-> k, value |-> v])

MapValues(m) == [i \in 1..Len(m) |-> m[i].value]

\* mutant: the entry seen first is kept, whatever its source
addItem_FirstWins(target, item) ==
  IF ~MapHas(target, item.storagePath) THEN MapSet(target, item.storagePath, item)
  ELSE target

addItem(target, item) ==
  IF ~MapHas(target, item.storagePath) THEN MapSet(target, item.storagePath, item)
  ELSE LET current == MapGet(target, item.storagePath)
       IN IF current.source = "public" /\ item.source = "legacy"
          THEN MapSet(target, item.storagePath, item)
          ELSE target

\* null is the empty string: the caller tests !thumbPath
toThumbStoragePath(storagePath) ==
  IF ~StartsWith(storagePath, STR_images) THEN <<>>
  ELSE IF StartsWith(storagePath, STR_images_thumb) THEN <<>>
  ELSE STR_images_thumb \o SubSeq(storagePath, Len(STR_images) + 1, Len(storagePath))

\* mutant: the thumb alias takes the upload key of the full image
addImageWithThumbAlias_FullKey(target, localPath, storagePath, bytes, source) ==
  LET withFull == addItem(target,
                    [localPath |-> localPath, storagePath |-> storagePath,
                     uploadPath |-> toUploadKey(storagePath), bytes |-> bytes,
                     source |-> source, variant |-> "full"])
      thumbPath == toThumbStoragePath(storagePath)
  IN IF thumbPath = <<>> THEN withFull
     ELSE addItem(withFull,
            [localPath |-> localPath, storagePath |-> thumbPath,
             uploadPath |-> toUploadKey(storagePath), bytes |-> bytes,
             source |-> source, variant |-> "thumb"])

\* mutant: the thumb alias is stored without the priority merge
addImageWithThumbAlias_ThumbOverwrites(target, localPath, storagePath, bytes, source) ==
  LET withFull == addItem(target,
                    [localPath |-> localPath, storagePath |-> storagePath,
                     uploadPath |-> toUploadKey(storagePath), bytes |-> bytes,
                     source |-> source, variant |-> "full"])
      thumbPath == toThumbStoragePath(storagePath)
  IN IF thumbPath = <<>> THEN withFull
     ELSE MapSet(withFull, thumbPath,
            [localPath |-> localPath, storagePath |-> thumbPath,
             uploadPath |-> toUploadKey(thumbPath), bytes |-> bytes,
             source |-> source, variant |-> "thumb"])

addImageWithThumbAlias(target, localPath, storagePath, bytes, source) ==
  LET withFull == addItem(target,
                    [localPath |-> localPath, storagePath |-> storagePath,
                     uploadPath |-> toUploadKey(storagePath), bytes |-> bytes,
                     source |-> source, variant |-> "full"])
      thumbPath == toThumbStoragePath(storagePath)
  IN IF thumbPath = <<>> THEN withFull
     ELSE addItem(withFull,
            [localPath |-> localPath, storagePath |-> thumbPath,
             uploadPath |-> toUploadKey(thumbPath), bytes |-> bytes,
             source |-> source, variant |-> "thumb"])

\* String.prototype.localeCompare(a, b) < 0, taken as code point order
RECURSIVE LocaleLess(_, _)
LocaleLess(a, b) ==
  IF Len(b) = 0 THEN FALSE
  ELSE IF Len(a) = 0 THEN TRUE
  ELSE IF a[1] # b[1] THEN a[1] < b[1]
  ELSE LocaleLess(Tail(a), Tail(b))

\* [...itemsByPath.values()].sort(by storagePath)
SortByStoragePath(items) ==
  SortSeq(items, LAMBDA a, b : LocaleLess(a.storagePath, b.storagePath))

\* the local roots, in the order collectAssets walks them
ROOTS == <<"legacyImages", "legacyModels", "publicImages", "publicModels">>

RootIndex(r) == CHOOSE i \in 1..Len(ROOTS) : ROOTS[i] = r

\* localPath of a walked file: join(dir, ...) of its root and relative path
LocalPath(f) == [root |-> f.root, rel |-> f.rel]

\* the body of the collectAssets loop of the file's root, for one walked file
collectFile(itemsMap, f) ==
  IF f.root = "legacyImages" THEN
    IF ~isImage(f.rel) THEN itemsMap
    ELSE addImageWithThumbAlias(itemsMap, LocalPath(f),
           mapLegacyImageToStoragePath(f.rel), f.size, "legacy")
  ELSE IF f.root = "legacyModels" THEN
    IF ~isModel(f.rel) THEN itemsMap
    ELSE addItem(itemsMap,
           [localPath |-> LocalPath(f), storagePath |-> STR_models \o f.rel,
            uploadPath |-> toUploadKey(STR_models \o f.rel), bytes |-> f.size,
            source |-> "legacy", variant |-> "full"])
  ELSE IF f.root = "publicImages" THEN
    IF ~isImage(f.rel) THEN itemsMap
    ELSE addImageWithThumbAlias(itemsMap, LocalPath(f),
           STR_images \o f.rel, f.size, "public")
  ELSE
    IF ~isModel(f.rel) THEN itemsMap
    ELSE addItem(itemsMap,
           [localPath |-> LocalPath(f), storagePath |-> STR_models \o f.rel,
            uploadPath |-> toUploadKey(STR_models \o f.rel), bytes |-> f.size,
            source |-> "public", variant |-> "full"])

(***************************************************************************)
(* Upload orchestrator: content types and the object store                 *)
(***************************************************************************)
detectContentType(filePath) ==
  LET ext == toLowerCase(extname(filePath)) IN
  IF ext = EXT.jpg THEN "image/jpeg"
  ELSE IF ext = EXT.jpeg THEN "image/jpeg"
  ELSE IF ext = EXT.png THEN "image/png"
  ELSE IF ext = EXT.webp THEN "image/webp"
  ELSE IF ext = EXT.gif THEN "image/gif"
  ELSE IF ext = EXT.svg THEN "image/svg+xml"
  ELSE IF ext = EXT.obj THEN "model/obj"
  ELSE IF ext = EXT.mtl THEN "text/plain"
  ELSE IF ext = EXT.fbx THEN "model/fbx"
  ELSE IF ext = EXT.glb THEN "model/gltf-binary"
  ELSE IF ext = EXT.gltf THEN "model/gltf+json"
  ELSE "application/octet-stream"

\* [...new Set(candidates)]: the first occurrence of each value, in order
Dedup(seq) ==
  SelectSeq([i \in 1..Len(seq) |->
               IF \E j \in 1..(i - 1) : seq[j] = seq[i] THEN "" ELSE seq[i]],
            LAMBDA x : x # "")

\* mutant: getContentTypeCandidates without the fallbacks of .fbx
getContentTypeCandidates_NoFbxFallbacks(filePath) ==
  <<detectContentType(filePath), "undefined">>

\* "undefined" stands for no contentType option
getContentTypeCandidates(filePath) ==
  LET ext == toLowerCase(extname(filePath))
      primary == detectContentType(filePath)
      candidates == IF ext = EXT.fbx
                    THEN <<primary, "application/octet-stream", "text/plain", "undefined">>
                    ELSE <<primary, "undefined">>
  IN Dedup(candidates)

\* error messages of the storage client, by the patterns the code tests:
\* "parse" matches /failed to parse json/i, "mime" matches
\* /mime type .* is not supported/i, "transient" one of the other alternatives
\* of TRANSIENT_ERROR_PATTERN, "fatal" none of them
ErrorKinds == {"parse", "mime", "transient", "fatal"}

IsParseError(e) == e = "parse"

\* mutant: no error message is taken for a MIME rejection
IsMimeError_Never(e) == FALSE

IsMimeError(e) == e = "mime"

\* mutant: a pattern without its first alternative, failed to parse json
TRANSIENT_ERROR_PATTERN_WithoutParse(e) == e \in {"transient"}

TRANSIENT_ERROR_PATTERN(e) == e \in {"parse", "transient"}

\* storage.from(BUCKET).list(prefix): the entries directly under prefix; an
\* entry without metadata is a folder
ListEntries(objects, prefix) ==
  LET base == IF prefix = <<>> THEN <<>> ELSE prefix \o <<Ch.slash>>
      rels == {SubSeq(k, Len(base) + 1, Len(k)) :
                 k \in {x \in objects : StartsWith(x, base) /\ Len(x) > Len(base)}}
  IN {[name |-> Split(r)[1], folder |-> Len(Split(r)) > 1] : r \in rels}

\* sortBy {column: "name", order: "asc"}: the entries es, which agree on the
\* first pos - 1 characters of their names, in ascending order of name (code
\* point order, a name before the names it is a prefix of; of an object and a
\* folder of one name the object first)
RECURSIVE SortedByName(_, _)
RECURSIVE SortedByChar(_, _, _)
SortedByChar(es, chars, pos) ==
  IF chars = {} THEN <<>>
  ELSE LET c == CHOOSE x \in chars : \A y \in chars : x <= y
       IN SortedByName({e \in es : e.name[pos] = c}, pos + 1)
            \o SortedByChar(es, chars \ {c}, pos)

SortedByName(es, pos) ==
  IF es = {} THEN <<>>
  ELSE LET ended == {e \in es : Len(e.name) < pos}
           rest == es \ ended
       IN (IF \E e \in ended : ~e.folder THEN <<CHOOSE e \in ended : ~e.folder>> ELSE <<>>)
            \o (IF \E e \in ended : e.folder THEN <<CHOOSE e \in ended : e.folder>> ELSE <<>>)
            \o SortedByChar(rest, {e.name[pos] : e \in rest}, pos)

\* sortBy name asc, then limit and offset
ListPage(objects, prefix, offset, limit) ==
  LET all == SortedByName(ListEntries(objects, prefix), 1)
      hi == IF offset + limit < Len(all) THEN offset + limit ELSE Len(all)
  IN SubSeq(all, offset + 1, hi)

\* checkObjectExists, the outcome of a list call that succeeded:
\* (data ?? []).some((entry) => entry.name === name)
\* mutant: checkObjectExists that never finds the object
checkObjectExistsFound_Never(objects, objectPath) == FALSE

\* mutant: a list call that succeeded counts as the object being there
checkObjectExistsFound_Always(objects, objectPath) == TRUE

checkObjectExistsFound(objects, objectPath) ==
  LET slash == LastIndexOf(objectPath, Ch.slash)
      prefix == IF slash = 0 THEN <<>> ELSE SubSeq(objectPath, 1, slash - 1)
      name == SubSeq(objectPath, slash + 1, Len(objectPath))
  IN \E entry \in ListEntries(objects, prefix) : entry.name = name

\* const childPath = prefix ? `${prefix}/${entry.name}` : entry.name
childPathOf(prefix, entry) ==
  IF prefix # <<>> THEN prefix \o <<Ch.slash>> \o entry.name ELSE entry.name

\* the number of entries of a page that precede its first folder
LeadingObjects(entries) ==
  IF \E i \in 1..Len(entries) : entries[i].folder
  THEN (CHOOSE i \in 1..Len(entries) :
          entries[i].folder /\ \A j \in 1..(i - 1) : ~entries[j].folder) - 1
  ELSE Len(entries)

\* listAllObjectPaths between two list calls.  A frame is one activation:
\* its prefix, its offset and the entries of its page not yet looked at;
\* call = TRUE when its next step is a list call.  Runs the loops up to the
\* next list call and returns the frames and the objects collected.
RECURSIVE listAdvance(_, _)
\* the loop over the entries of the page of the frame top, of which the
\* first n are objects: they are pushed, and a folder that follows is entered
listAdvanceEntries(below, top, objects, n) ==
  IF n > 0
  THEN listAdvance(Append(below, [top EXCEPT !.entries = SubSeq(@, n + 1, Len(@))]),
                   objects \o [i \in 1..n |-> childPathOf(top.prefix, top.entries[i])])
  ELSE [frames |-> Append(Append(below, [top EXCEPT !.entries = Tail(@)]),
                          [prefix |-> childPathOf(top.prefix, top.entries[1]), offset |-> 0,
                           limit |-> top.limit, entries |-> <<>>,
                           more |-> FALSE, call |-> TRUE]),
        objects |-> objects]

listAdvance(frames, objects) ==
  IF Len(frames) = 0 THEN [frames |-> frames, objects |-> objects]
  ELSE LET top == frames[Len(frames)]
           below == SubSeq(frames, 1, Len(frames) - 1)
       IN IF top.call THEN [frames |-> frames, objects |-> objects]
          ELSE IF Len(top.entries) = 0 THEN
            IF top.more
            THEN [frames |-> Append(below, [top EXCEPT !.call = TRUE,
                                                       !.offset = top.offset + top.limit]),
                  objects |-> objects]
            ELSE listAdvance(below, objects)
          ELSE listAdvanceEntries(below, top, objects, LeadingObjects(top.entries))

\* mutant: the loop of an activation ends after its first page
listReturned_OnePage(frames, data) ==
  LET top == frames[Len(frames)]
      below == SubSeq(frames, 1, Len(frames) - 1)
  IN Append(below, [top EXCEPT !.call = FALSE, !.entries = data, !.more = FALSE])

\* the frames after the list call of the top frame returned the page data
listReturned(frames, data) ==
  LET top == frames[Len(frames)]
      below == SubSeq(frames, 1, Len(frames) - 1)
  IN Append(below, [top EXCEPT !.call = FALSE, !.entries = data,
                               !.more = (Len(data) > 0 /\ ~(Len(data) < top.limit))])

(***************************************************************************)
(* State                                                                   *)
(***************************************************************************)
VARIABLES
  kpc,          \* canonicalizer run: position
  rawPath,      \* canonicalizer run: the input path
  uploadKey,    \* toUploadKey(rawPath), the key the migration uploads under
  listedKey,    \* the verifier's canonicalization of the listed uploadKey
  verifierKey,  \* canonicalizeStorageKey(rawPath), the key the verifier tests
  appKey        \* encodeStoragePath(rawPath), the key the application requests

keyVars == <<kpc, rawPath, uploadKey, listedKey, verifierKey, appKey>>

VARIABLES
  bpc,          \* manifest build: position
  fs,           \* the files of the four local roots
  remaining,    \* files the directory walks have not yet yielded
  lastFile,     \* the file yielded last
  itemsByPath,  \* collectAssets: the dedup map
  assets        \* the manifest collectAssets returned

buildVars == <<bpc, fs, remaining, lastFile, itemsByPath, assets>>

VARIABLES
  upc,           \* migration process: position in main
  run,           \* "first" or "second" invocation of the migration
  dryRun,        \* DRY_RUN: the process was started without --run
  configOk,      \* NEXT_PUBLIC_SUPABASE_URL and SUPABASE_SERVICE_ROLE_KEY are set
  manifestFile,  \* supabase/storage-manifest.json: the items written, per write
  bucketExists,  \* object store: the bucket exists
  store,         \* object store: the keys of the objects in the bucket
  listFrames,    \* listAllObjectPaths: the activations of the recursion
  listObjects,   \* listAllObjectPaths: the keys collected so far
  existingSet,   \* main: the skip cache
  idx,           \* main: index of the manifest item at hand
  uploaded,      \* main: counter
  skipped,       \* main: counter
  processed,     \* main: counter
  attempt,       \* uploadWithMimeFallback: attempt
  index,         \* uploadWithMimeFallback: index of the content-type candidate
  lastError,     \* uploadWithMimeFallback: lastError ("none" for null)
  probeFor,      \* checkObjectExists: called after an upload ("inline") or after the loop ("final")
  probeAttempt,  \* checkObjectExists: attempt
  trace,         \* what this run did, for the properties
  firstRun,      \* what the first run did, once the second has started
  faults,        \* error responses the store may still give
  other          \* the locals of a second migration process running at the same time

VARIABLES
  vpc,           \* verifier process: position in main of verify_storage_links.ts
  vConfigOk,     \* verifier: URL and service role key are set
  db,            \* database and src/lib/characters.ts: the rows with their path values
  vListFrames,   \* listAllStorageObjects: the activations of the recursion
  vListObjects,  \* listAllStorageObjects: the keys collected so far
  objectSet,     \* verifier main: the canonical keys of the listing
  missing,       \* verifier main: the missing list
  vtrace         \* what the verifier run did, for the properties

VARIABLES
  npc,           \* a call of normalizeStoragePath: "input", then "returned"
  nRaw,          \* normalizeStoragePath: rawPath
  nResult        \* normalizeStoragePath: what the call returned or threw

normalizeVars == <<npc, nRaw, nResult>>

VARIABLES
  cpc,           \* a call of getContentTypeCandidates: "input", then "returned"
  cFilePath,     \* getContentTypeCandidates: filePath
  cCandidates    \* getContentTypeCandidates: the array returned

candidateVars == <<cpc, cFilePath, cCandidates>>

VARIABLES
  startStore,        \* the keys in the bucket when the verifier run at hand began
  concurrentUploads  \* uploads another process has made while the verifier listed

concurrentVars == <<startStore, concurrentUploads>>

verifyVars == <<vpc, vConfigOk, db, vListFrames, vListObjects, objectSet, missing, vtrace,
                normalizeVars, concurrentVars>>

storeVars == <<bucketExists, store>>

mainVars == <<upc, run, dryRun, configOk, manifestFile, listFrames, listObjects,
              existingSet, idx, uploaded, skipped, processed>>

itemVars == <<attempt, index, lastError, probeFor, probeAttempt>>

uploadVars == <<storeVars, mainVars, itemVars, trace, firstRun, faults, other>>

vars == <<keyVars, buildVars, uploadVars, verifyVars, candidateVars>>

notKeyVars == <<buildVars, uploadVars, verifyVars, candidateVars>>

notBuildVars == <<keyVars, uploadVars, verifyVars, candidateVars>>

notUploadVars == <<keyVars, bpc, remaining, lastFile, itemsByPath, other, verifyVars,
                   candidateVars>>

notVerifyVars == <<keyVars, buildVars, mainVars, itemVars, trace, firstRun, faults, other,
                   normalizeVars, candidateVars, concurrentVars>>

notNormalizeVars == <<keyVars, buildVars, uploadVars, vpc, vConfigOk, db, vListFrames,
                      vListObjects, objectSet, missing, vtrace, candidateVars,
                      concurrentVars>>

notCandidateVars == <<keyVars, buildVars, uploadVars, verifyVars>>

File(root, rel, size) == [root |-> root, rel |-> rel, size |-> size]

NoFile == File("none", <<>>, 0)

\* no canonicalizer run is under way
KeyIdle ==
  /\ kpc = "idle"
  /\ rawPath = <<>>
  /\ uploadKey = <<>>
  /\ listedKey = <<>>
  /\ verifierKey = <<>>
  /\ appKey = <<>>

\* what a run has done so far: the set built from the initial listing and
\* whether that listing succeeded, per item index the number of upload calls,
\* the items probed, read, skipped and counted as uploaded, the options of the
\* last upload call, the waits before the retries of the item at hand, the
\* store as the run found it and the error responses the run received
NoTrace ==
  [listing |-> "none", listedSet |-> {}, uploadCalls |-> <<>>, probed |-> {},
   read |-> {}, skippedItems |-> {}, uploadedItems |-> {},
   lastUpload |-> [key |-> <<>>, upsert |-> FALSE, contentType |-> "none"],
   retryWaits |-> <<>>, storeAtStart |-> {}, errors |-> 0,
   calls |-> {}, createCalls |-> 0, bucketStep |-> "none",
   exitCode |-> <<>>, thrown |-> "none"]

NoFirstRun == [outcome |-> "none", uploadedItems |-> {}, skippedItems |-> {}]

\* what a verifier run has done so far: the calls of the storage client by
\* kind, the outcome of the queries and of the listing, whether the bulk
\* report was reached, the exit status and the error that ended the run
NoVerifyTrace ==
  [storageCalls |-> {}, listCalls |-> 0, queries |-> "none", listing |-> "none",
   reported |-> FALSE, exitCode |-> <<>>, thrown |-> "none"]

EmptyDb == [cities |-> <<>>, genres |-> <<>>, spots |-> <<>>, characters |-> <<>>]

\* no process uploads while a verifier lists
NoConcurrentUploader == startStore = {} /\ concurrentUploads = 0

\* no verifier process is under way
VerifyIdle ==
  /\ vpc = "idle" /\ vConfigOk = FALSE /\ db = EmptyDb
  /\ vListFrames = <<>> /\ vListObjects = <<>> /\ objectSet = {} /\ missing = <<>>
  /\ vtrace = NoVerifyTrace
  /\ NoConcurrentUploader

\* no call of normalizeStoragePath is under way
NormalizeIdle ==
  /\ npc = "idle"
  /\ nRaw = [null |-> TRUE, s |-> <<>>]
  /\ nResult = [threw |-> FALSE, null |-> TRUE, s |-> <<>>]

\* no call of getContentTypeCandidates is under way
CandidatesIdle == cpc = "idle" /\ cFilePath = <<>> /\ cCandidates = <<>>

\* the locals of a migration process at the entry of main
FreshProcess ==
  [upc |-> "collect", assets |-> <<>>, manifestFile |-> <<>>,
   listFrames |-> <<>>, listObjects |-> <<>>, existingSet |-> {},
   idx |-> 0, uploaded |-> 0, skipped |-> 0, processed |-> 0,
   attempt |-> 0, index |-> 0, lastError |-> "none",
   probeFor |-> "none", probeAttempt |-> 0, trace |-> NoTrace]

\* there is no second process
NoProcess == [FreshProcess EXCEPT !.upc = "none"]

\* no migration process is under way
UploadIdle ==
  /\ upc = "idle" /\ run = "first" /\ dryRun = TRUE /\ configOk = FALSE
  /\ manifestFile = <<>> /\ bucketExists = FALSE /\ store = {}
  /\ listFrames = <<>> /\ listObjects = <<>> /\ existingSet = {}
  /\ idx = 0 /\ uploaded = 0 /\ skipped = 0 /\ processed = 0
  /\ attempt = 0 /\ index = 0 /\ lastError = "none"
  /\ probeFor = "none" /\ probeAttempt = 0
  /\ trace = NoTrace /\ firstRun = NoFirstRun /\ faults = 0
  /\ other = NoProcess

\* no manifest build is under way
BuildIdle ==
  /\ bpc = "idle"
  /\ fs = {}
  /\ remaining = {}
  /\ lastFile = NoFile
  /\ itemsByPath = <<>>
  /\ assets = <<>>

(***************************************************************************)
(* Canonicalizer runs: one input path through the three copies             *)
(***************************************************************************)
\* number of pieces an input path is concatenated from
MaxPieces == 3

\* "/", "%", "41", "2F", "25", "a", ".", " ", U+00E9, "%C3%A9", "%C3", "u",
\* U+3042, U+1F600
Pieces ==
  { <<47>>, <<37>>, <<52, 49>>, <<50, 70>>, <<50, 53>>, <<97>>, <<46>>, <<32>>,
    <<233>>, <<37, 67, 51, 37, 65, 57>>, <<37, 67, 51>>, <<117>>,
    <<12354>>, <<128512>> }

RECURSIVE PathsOf(_)
PathsOf(n) ==
  IF n = 0 THEN {<<>>}
  ELSE LET shorter == PathsOf(n - 1)
       IN shorter \cup {p \o q : p \in shorter, q \in Pieces}

Paths == PathsOf(MaxPieces)

KeyInit ==
  /\ BuildIdle
  /\ UploadIdle
  /\ VerifyIdle
  /\ NormalizeIdle
  /\ CandidatesIdle
  /\ kpc = "input"
  /\ rawPath \in Paths
  /\ uploadKey = <<>>
  /\ listedKey = <<>>
  /\ verifierKey = <<>>
  /\ appKey = <<>>

\* migrate_storage_assets.ts: uploadPath: toUploadKey(storagePath)
KeyUpload ==
  /\ kpc = "input"
  /\ uploadKey' = toUploadKey(rawPath)
  /\ kpc' = "uploaded"
  /\ UNCHANGED <<rawPath, listedKey, verifierKey, appKey>>
  /\ UNCHANGED notKeyVars

\* verify_storage_links.ts: objectSet = storageObjects.map(canonicalizeStorageKey)
KeyListed ==
  /\ kpc = "uploaded"
  /\ listedKey' = canonicalizeStorageKey(uploadKey)
  /\ kpc' = "listed"
  /\ UNCHANGED <<rawPath, uploadKey, verifierKey, appKey>>
  /\ UNCHANGED notKeyVars

\* verify_storage_links.ts: canonical = canonicalizeStorageKey(normalized)
KeyVerify ==
  /\ kpc = "listed"
  /\ verifierKey' = canonicalizeStorageKey(rawPath)
  /\ kpc' = "verified"
  /\ UNCHANGED <<rawPath, uploadKey, listedKey, appKey>>
  /\ UNCHANGED notKeyVars

\* types.ts: encodedPath = encodeStoragePath(normalizedStoragePath)
KeyEncode ==
  /\ kpc = "verified"
  /\ appKey' = encodeStoragePath(rawPath)
  /\ kpc' = "done"
  /\ UNCHANGED <<rawPath, uploadKey, listedKey, verifierKey>>
  /\ UNCHANGED notKeyVars

KeyNext == KeyUpload \/ KeyListed \/ KeyVerify \/ KeyEncode

SpecKey == KeyInit /\ [][KeyNext]_vars

(***************************************************************************)
(* Manifest build: collectAssets over a local tree                         *)
(***************************************************************************)
\* number of files in the local roots
MaxFiles == 4

\* the files a local tree is drawn from, with their sizes
CandidateFiles ==
  { File("legacyImages", <<99, 105, 116, 121, 95, 105, 109, 97, 103, 101, 115, 47, 120, 46, 106, 112, 103>>, 1),    \* city_images/x.jpg
    File("legacyImages", <<99, 105, 116, 121, 95, 105, 109, 97, 103, 101, 115, 47, 115, 47, 120, 46, 106, 112, 103>>, 2),  \* city_images/s/x.jpg
    File("legacyImages", <<119, 97, 110, 107, 111, 46, 112, 110, 103>>, 3),            \* wanko.png
    File("legacyImages", <<111, 47, 233, 46, 80, 78, 71>>, 1),              \* o/<U+00E9>.PNG
    File("legacyImages", <<99, 105, 116, 121, 95, 105, 109, 97, 103, 101, 115, 47, 110, 46, 116, 120, 116>>, 1),    \* city_images/n.txt
    File("legacyModels", <<109, 46, 102, 98, 120>>, 2),                \* m.fbx
    File("publicImages", <<99, 105, 116, 105, 101, 115, 47, 120, 46, 106, 112, 103>>, 3),         \* cities/x.jpg
    File("publicImages", <<116, 104, 117, 109, 98, 47, 99, 105, 116, 105, 101, 115, 47, 120, 46, 106, 112, 103>>, 1),   \* thumb/cities/x.jpg
    File("publicImages", <<111, 116, 104, 101, 114, 47, 119, 97, 110, 107, 111, 46, 112, 110, 103>>, 3),      \* other/wanko.png
    File("publicModels", <<109, 46, 102, 98, 120>>, 5),                \* m.fbx
    File("publicModels", <<100, 47, 110, 46, 111, 98, 106>>, 1) }             \* d/n.obj

BuildInit ==
  /\ KeyIdle
  /\ UploadIdle
  /\ VerifyIdle
  /\ NormalizeIdle
  /\ CandidatesIdle
  /\ bpc = "collect"
  /\ fs \in {t \in SUBSET CandidateFiles : Cardinality(t) <= MaxFiles}
  /\ remaining = fs
  /\ lastFile = NoFile
  /\ itemsByPath = <<>>
  /\ assets = <<>>

\* the directories a relative path lies in, each with its trailing slash
DirsOf(rel) == {SubSeq(rel, 1, i) : i \in {j \in 1..Len(rel) : rel[j] = Ch.slash}}

\* walkFiles yields a directory's files, and those of its subdirectories,
\* before it returns to the parent: f may follow lastFile in the walk of a root
\* when every directory lastFile is in, and that still holds unvisited files,
\* also holds f.  The order of the entries of one directory is readdir's.
walkFilesMayYield(f) ==
  lastFile.root = f.root =>
    \A d \in DirsOf(lastFile.rel) :
      (\E g \in remaining : g.root = f.root /\ StartsWith(g.rel, d))
        => StartsWith(f.rel, d)

\* one iteration of the loop over the walked files of the root at hand
CollectFile(f) ==
  /\ bpc = "collect"
  /\ f \in remaining
  /\ \A g \in remaining : RootIndex(g.root) >= RootIndex(f.root)
  /\ walkFilesMayYield(f)
  /\ itemsByPath' = collectFile(itemsByPath, f)
  /\ remaining' = remaining \ {f}
  /\ lastFile' = f
  /\ UNCHANGED <<bpc, fs, assets>>
  /\ UNCHANGED notBuildVars

\* return [...itemsByPath.values()].sort(...)
CollectReturn ==
  /\ bpc = "collect"
  /\ remaining = {}
  /\ assets' = SortByStoragePath(MapValues(itemsByPath))
  /\ bpc' = "done"
  /\ UNCHANGED <<fs, remaining, lastFile, itemsByPath>>
  /\ UNCHANGED notBuildVars

BuildNext == (\E f \in CandidateFiles : CollectFile(f)) \/ CollectReturn

SpecBuild == BuildInit /\ [][BuildNext]_vars

\* the walk that yields the files of each root in code point order of their paths
RECURSIVE SortedWalk(_)
SortedWalk(files) ==
  IF files = {} THEN <<>>
  ELSE LET f == CHOOSE x \in files : \A y \in files \ {x} :
                  \/ RootIndex(x.root) < RootIndex(y.root)
                  \/ RootIndex(x.root) = RootIndex(y.root) /\ LocaleLess(x.rel, y.rel)
       IN <<f>> \o SortedWalk(files \ {f})

\* collectAssets for a given walk of the roots
RECURSIVE CollectInOrder(_, _)
CollectInOrder(walk, itemsMap) ==
  IF Len(walk) = 0 THEN SortByStoragePath(MapValues(itemsMap))
  ELSE CollectInOrder(Tail(walk), collectFile(itemsMap, walk[1]))

(***************************************************************************)
(* The insertion routines applied to the files of a tree in any order      *)
(***************************************************************************)
\* addImageWithThumbAlias / addItem for one file, whatever was inserted before
InsertFile(f) ==
  /\ bpc = "collect"
  /\ f \in remaining
  /\ itemsByPath' = collectFile(itemsByPath, f)
  /\ remaining' = remaining \ {f}
  /\ lastFile' = f
  /\ UNCHANGED <<bpc, fs, assets>>
  /\ UNCHANGED notBuildVars

InsertNext == \E f \in CandidateFiles : InsertFile(f)

SpecInsert == BuildInit /\ [][InsertNext]_vars

(***************************************************************************)
(* Migration process: main of scripts/migrate_storage_assets.ts, one step  *)
(* per call of the storage client                                          *)
(***************************************************************************)
\* number of files in the local roots of a migration
MaxUploadFiles == 3

\* number of error responses the store gives in one behaviour
MaxFaults == 4

UPLOAD_MAX_ATTEMPTS == 4

PROBE_MAX_ATTEMPTS == 3

LIST_LIMIT == 100

\* the files the local tree of a migration is drawn from
UploadCandidateFiles ==
  { File("legacyModels", <<109, 46, 102, 98, 120>>, 2),         \* m.fbx
    File("publicModels", <<109, 46, 102, 98, 120, 47, 110, 46, 111, 98, 106>>, 1),   \* m.fbx/n.obj
    File("publicModels", <<37, 52, 49, 46, 111, 98, 106>>, 3),       \* %41.obj
    File("publicModels", <<65, 46, 111, 98, 106>>, 1),         \* A.obj
    File("publicModels", <<110, 46, 111, 98, 106>>, 2) }        \* n.obj

UploadTrees == {t \in SUBSET UploadCandidateFiles : Cardinality(t) <= MaxUploadFiles}

\* collectAssets, the roots walked in sorted order
collectAssets(tree) == CollectInOrder(SortedWalk(tree), <<>>)

ManifestOfTree == [t \in UploadTrees |-> collectAssets(t)]

UploadKeysOfTree ==
  [t \in UploadTrees |-> {ManifestOfTree[t][i].uploadPath : i \in 1..Len(ManifestOfTree[t])}]

\* the responses of storage.upload: the error message, by kind, and whether
\* the object was written all the same
UploadResponses ==
  {[error |-> "none", stored |-> TRUE]}
    \cup {[error |-> e, stored |-> FALSE] : e \in ErrorKinds}
    \cup {[error |-> e, stored |-> TRUE] : e \in {"parse", "transient"}}

UploadInit ==
  /\ KeyIdle
  /\ bpc = "idle" /\ remaining = {} /\ lastFile = NoFile /\ itemsByPath = <<>>
  /\ assets = <<>>
  /\ fs \in UploadTrees
  /\ upc = "collect" /\ run = "first"
  /\ dryRun \in BOOLEAN /\ configOk \in BOOLEAN
  /\ manifestFile = <<>>
  /\ bucketExists \in BOOLEAN
  /\ store \in IF bucketExists THEN SUBSET UploadKeysOfTree[fs] ELSE {{}}
  /\ listFrames = <<>> /\ listObjects = <<>> /\ existingSet = {}
  /\ idx = 0 /\ uploaded = 0 /\ skipped = 0 /\ processed = 0
  /\ attempt = 0 /\ index = 0 /\ lastError = "none"
  /\ probeFor = "none" /\ probeAttempt = 0
  /\ trace = NoTrace /\ firstRun = NoFirstRun /\ faults = MaxFaults
  /\ other = NoProcess
  /\ VerifyIdle
  /\ NormalizeIdle
  /\ CandidatesIdle

\* const assets = await collectAssets()
MainCollect ==
  /\ upc = "collect"
  /\ assets' = ManifestOfTree[fs]
  /\ trace' = [NoTrace EXCEPT !.uploadCalls = [i \in 1..Len(assets') |-> 0]]
  /\ upc' = "write"
  /\ UNCHANGED <<run, dryRun, configOk, manifestFile, listFrames, listObjects,
                 existingSet, idx, uploaded, skipped, processed>>
  /\ UNCHANGED <<storeVars, itemVars, firstRun, faults, fs>>
  /\ UNCHANGED notUploadVars

\* main from the return of writeManifest, with the test of the configuration
\* before the dry-run return
mainAfterManifest_ConfigFirst(dry, config) ==
  IF ~config THEN "aborted" ELSE IF dry THEN "done" ELSE "listBuckets"

\* main from the return of writeManifest, without the dry-run return
mainAfterManifest_NoDryRun(dry, config) ==
  IF ~config THEN "aborted" ELSE "listBuckets"

\* main from the return of writeManifest to the call of ensureBucketBestEffort:
\* the dry-run return, then the throw on a missing URL or service role key
mainAfterManifest(dry, config) ==
  IF dry THEN "done"
  ELSE IF ~config THEN "aborted"
  ELSE "listBuckets"

\* mutant: writeManifest that writes the file twice
writeManifest_Twice(file, items) == Append(Append(file, items), items)

\* writeManifest: one writeFile of the payload; file is the sequence of the
\* contents written to MANIFEST_PATH by the run
writeManifest(file, items) == Append(file, items)

\* await writeManifest(assets), then the dry-run return, the configuration
\* check and createClient
MainWriteManifest ==
  /\ upc = "write"
  /\ manifestFile' = writeManifest(manifestFile, assets)
  /\ upc' = mainAfterManifest(dryRun, configOk)
  /\ trace' = IF upc' = "done" THEN [trace EXCEPT !.exitCode = <<0>>]
              ELSE IF upc' = "aborted"
                THEN [trace EXCEPT !.exitCode = <<1>>, !.thrown = "config"]
              ELSE trace
  /\ UNCHANGED <<run, dryRun, configOk, listFrames, listObjects,
                 existingSet, idx, uploaded, skipped, processed>>
  /\ UNCHANGED <<storeVars, itemVars, firstRun, faults, fs, assets>>
  /\ UNCHANGED notUploadVars

\* main after ensureBucketBestEffort returned: listAllObjectPaths(supabase) is entered
StartListing(t) ==
  /\ upc' = "list"
  /\ listFrames' = <<[prefix |-> <<>>, offset |-> 0, limit |-> LIST_LIMIT,
                      entries |-> <<>>, more |-> FALSE, call |-> TRUE]>>
  /\ listObjects' = <<>>
  /\ trace' = [t EXCEPT !.storeAtStart = store]

\* an error response: faults is the number of them the store may still give
Fault == faults > 0 /\ faults' = faults - 1

NoFault == faults' = faults

Errored(t) == [t EXCEPT !.errors = @ + 1]

\* a call of the storage client of the given kind has been made
Called(t, kind) == [t EXCEPT !.calls = @ \cup {kind}]

\* ensureBucketBestEffort that goes on to createBucket after a listBuckets error too
shouldCreateBucket_AlsoOnListError(listError, exists) == listError \/ ~exists

\* ensureBucketBestEffort: createBucket is called when listBuckets returned
\* without error and no bucket has the name or id BUCKET
shouldCreateBucket(listError, exists) == ~listError /\ ~exists

\* ensureBucketBestEffort: supabase.storage.listBuckets()
ListBuckets ==
  /\ upc = "listBuckets"
  /\ \E listError \in BOOLEAN :
       LET called == Called(trace, "listBuckets")
           step == IF listError THEN "listError"
                   ELSE IF bucketExists THEN "found" ELSE "absent"
           t == [called EXCEPT !.bucketStep = step]
       IN /\ IF listError THEN Fault ELSE NoFault
          /\ IF shouldCreateBucket(listError, bucketExists)
             THEN /\ upc' = "createBucket"
                  /\ trace' = t
                  /\ UNCHANGED <<listFrames, listObjects>>
             ELSE StartListing(IF listError THEN Errored(t) ELSE t)
  /\ UNCHANGED <<run, dryRun, configOk, manifestFile,
                 existingSet, idx, uploaded, skipped, processed>>
  /\ UNCHANGED <<storeVars, itemVars, firstRun, fs, assets>>
  /\ UNCHANGED notUploadVars

\* ensureBucketBestEffort: supabase.storage.createBucket(BUCKET, ...)
CreateBucket ==
  /\ upc = "createBucket"
  /\ LET called == [Called(trace, "createBucket") EXCEPT !.createCalls = @ + 1] IN
     \/ /\ Fault
        /\ StartListing(Errored([called EXCEPT !.bucketStep = "createError"]))
        /\ UNCHANGED storeVars
     \/ /\ NoFault
        /\ IF bucketExists
           THEN \* created in the meantime: the call is refused
                /\ StartListing(Errored([called EXCEPT !.bucketStep = "createError"]))
                /\ UNCHANGED storeVars
           ELSE /\ StartListing([called EXCEPT !.bucketStep = "created"])
                /\ bucketExists' = TRUE
                /\ UNCHANGED store
  /\ UNCHANGED <<run, dryRun, configOk, manifestFile,
                 existingSet, idx, uploaded, skipped, processed>>
  /\ UNCHANGED <<itemVars, firstRun, fs, assets>>
  /\ UNCHANGED notUploadVars

SetOf(seq) == {seq[i] : i \in 1..Len(seq)}

\* mutant: main that starts the listing again after it threw
ListingFailed_ListsAgain(t) ==
  /\ existingSet' = {}
  /\ listFrames' = <<[prefix |-> <<>>, offset |-> 0, limit |-> LIST_LIMIT,
                      entries |-> <<>>, more |-> FALSE, call |-> TRUE]>>
  /\ listObjects' = <<>>
  /\ trace' = [t EXCEPT !.listing = "failed", !.listedSet = {}]
  /\ upc' = "list"
  /\ idx' = idx

\* mutant: main without the try around listAllObjectPaths
ListingFailed_Throws(t) ==
  /\ existingSet' = {}
  /\ listFrames' = <<>>
  /\ listObjects' = <<>>
  /\ trace' = [t EXCEPT !.listing = "failed", !.listedSet = {}, !.exitCode = <<1>>,
                         !.thrown = "transient"]
  /\ upc' = "aborted"
  /\ idx' = 1

\* main: the listing threw and the run proceeds without skip cache
ListingFailed(t) ==
  /\ existingSet' = {}
  /\ listFrames' = <<>>
  /\ listObjects' = <<>>
  /\ trace' = [t EXCEPT !.listing = "failed", !.listedSet = {}]
  /\ upc' = "loop"
  /\ idx' = 1

\* listAllObjectPaths: one storage.from(BUCKET).list(prefix, {limit, offset, sortBy})
\* and the loops up to the next call
ListObjects ==
  /\ upc = "list"
  /\ LET top == listFrames[Len(listFrames)]
         called == Called(trace, "list")
     IN
     \/ /\ bucketExists
        /\ NoFault
        /\ LET r == listAdvance(
                      listReturned(listFrames,
                        ListPage(store, top.prefix, top.offset, top.limit)),
                      listObjects)
           IN IF Len(r.frames) = 0
              THEN /\ existingSet' = SetOf(r.objects)
                   /\ listFrames' = <<>>
                   /\ listObjects' = <<>>
                   /\ trace' = [called EXCEPT !.listing = "ok",
                                              !.listedSet = SetOf(r.objects)]
                   /\ upc' = "loop"
                   /\ idx' = 1
              ELSE /\ listFrames' = r.frames
                   /\ listObjects' = r.objects
                   /\ trace' = called
                   /\ UNCHANGED <<existingSet, upc, idx>>
     \/ /\ bucketExists
        /\ Fault
        /\ ListingFailed(Errored(called))
     \/ /\ ~bucketExists
        /\ NoFault
        /\ ListingFailed(Errored(called))
  /\ UNCHANGED <<run, dryRun, configOk, manifestFile, uploaded, skipped, processed>>
  /\ UNCHANGED <<storeVars, itemVars, firstRun, fs, assets>>
  /\ UNCHANGED notUploadVars

\* mutant: the skip branch without processed += 1
LoopSkip_NotProcessed ==
  /\ upc = "loop"
  /\ idx <= Len(assets)
  /\ assets[idx].uploadPath \in existingSet
  /\ skipped' = skipped + 1
  /\ idx' = idx + 1
  /\ trace' = [trace EXCEPT !.skippedItems = @ \cup {idx}]
  /\ UNCHANGED <<upc, run, dryRun, configOk, manifestFile, listFrames, listObjects,
                 existingSet, uploaded, processed>>
  /\ UNCHANGED <<storeVars, itemVars, firstRun, faults, fs, assets>>
  /\ UNCHANGED notUploadVars

\* the loop of main, for an item whose uploadPath is in the skip cache
LoopSkip ==
  /\ upc = "loop"
  /\ idx <= Len(assets)
  /\ assets[idx].uploadPath \in existingSet
  /\ skipped' = skipped + 1
  /\ processed' = processed + 1
  /\ idx' = idx + 1
  /\ trace' = [trace EXCEPT !.skippedItems = @ \cup {idx}]
  /\ UNCHANGED <<upc, run, dryRun, configOk, manifestFile, listFrames, listObjects,
                 existingSet, uploaded>>
  /\ UNCHANGED <<storeVars, itemVars, firstRun, faults, fs, assets>>
  /\ UNCHANGED notUploadVars

\* LoopRead without the look-up in the skip cache
LoopRead_IgnoresSkipCache ==
  /\ upc = "loop"
  /\ idx <= Len(assets)
  /\ trace' = [trace EXCEPT !.read = @ \cup {idx}, !.retryWaits = <<>>]
  /\ upc' = "upload"
  /\ attempt' = 0
  /\ index' = 0
  /\ lastError' = "none"
  /\ UNCHANGED <<probeFor, probeAttempt>>
  /\ UNCHANGED <<run, dryRun, configOk, manifestFile, listFrames, listObjects,
                 existingSet, idx, uploaded, skipped, processed>>
  /\ UNCHANGED <<storeVars, firstRun, faults, fs, assets>>
  /\ UNCHANGED notUploadVars

\* the loop of main, for any other item: readFile, and uploadWithMimeFallback
\* up to its first upload call
LoopRead ==
  /\ upc = "loop"
  /\ idx <= Len(assets)
  /\ assets[idx].uploadPath \notin existingSet
  /\ trace' = [trace EXCEPT !.read = @ \cup {idx}, !.retryWaits = <<>>]
  /\ upc' = "upload"
  /\ attempt' = 0
  /\ index' = 0
  /\ lastError' = "none"
  /\ UNCHANGED <<probeFor, probeAttempt>>
  /\ UNCHANGED <<run, dryRun, configOk, manifestFile, listFrames, listObjects,
                 existingSet, idx, uploaded, skipped, processed>>
  /\ UNCHANGED <<storeVars, firstRun, faults, fs, assets>>
  /\ UNCHANGED notUploadVars

\* main: the loop is over
MainCompleted ==
  /\ upc = "loop"
  /\ idx > Len(assets)
  /\ upc' = "done"
  /\ trace' = [trace EXCEPT !.exitCode = <<0>>]
  /\ UNCHANGED <<run, dryRun, configOk, manifestFile, listFrames, listObjects,
                 existingSet, idx, uploaded, skipped, processed>>
  /\ UNCHANGED <<storeVars, itemVars, firstRun, faults, fs, assets>>
  /\ UNCHANGED notUploadVars

\* mutant: main without existingSet.add(item.uploadPath)
ItemSucceeded_NoCacheAdd(t) ==
  /\ uploaded' = uploaded + 1
  /\ processed' = processed + 1
  /\ existingSet' = existingSet
  /\ idx' = idx + 1
  /\ upc' = "loop"
  /\ attempt' = 0 /\ index' = 0
  /\ probeFor' = "none" /\ probeAttempt' = 0
  /\ trace' = [t EXCEPT !.uploadedItems = @ \cup {idx}]

\* uploadWithMimeFallback returned: the bookkeeping of main
ItemSucceeded(t) ==
  /\ uploaded' = uploaded + 1
  /\ processed' = processed + 1
  /\ existingSet' = existingSet \cup {assets[idx].uploadPath}
  /\ idx' = idx + 1
  /\ upc' = "loop"
  /\ attempt' = 0 /\ index' = 0
  /\ probeFor' = "none" /\ probeAttempt' = 0
  /\ trace' = [t EXCEPT !.uploadedItems = @ \cup {idx}]

\* uploadWithMimeFallback threw an error that carries the message of e:
\* main().catch, process.exit(1)
ItemThrew(t, e) ==
  /\ upc' = "aborted"
  /\ trace' = [t EXCEPT !.exitCode = <<1>>, !.thrown = e]
  /\ UNCHANGED <<uploaded, processed, existingSet, idx, attempt, index,
                 probeFor, probeAttempt>>

\* the next upload call is for candidate i of attempt a
ItemContinues(t, a, i) ==
  /\ upc' = "upload"
  /\ attempt' = a /\ index' = i
  /\ probeFor' = "none" /\ probeAttempt' = 0
  /\ trace' = t
  /\ UNCHANGED <<uploaded, processed, existingSet, idx>>

\* the next call is the list call of checkObjectExists
ItemProbes(t, for, a) ==
  /\ upc' = "probe"
  /\ probeFor' = for /\ probeAttempt' = a
  /\ trace' = t
  /\ UNCHANGED <<uploaded, processed, existingSet, idx, attempt, index>>

\* uploadWithMimeFallback that retries after an error of any kind
AfterUploadError_RetriesEveryError(e, t) ==
  LET candidates == getContentTypeCandidates(assets[idx].localPath.rel)
      hasNext == index < Len(candidates) - 1
  IN IF hasNext /\ IsMimeError(e) THEN ItemContinues(t, attempt, index + 1)
     ELSE IF attempt < UPLOAD_MAX_ATTEMPTS - 1
       THEN ItemContinues([t EXCEPT !.retryWaits = Append(@, (attempt + 1) * 1000)],
                          attempt + 1, 0)
     ELSE IF IsParseError(e) THEN ItemProbes(t, "final", 0)
     ELSE ItemThrew(t, e)

\* uploadWithMimeFallback with one pass more
AfterUploadError_FivePasses(e, t) ==
  LET candidates == getContentTypeCandidates(assets[idx].localPath.rel)
      hasNext == index < Len(candidates) - 1
  IN IF hasNext /\ IsMimeError(e) THEN ItemContinues(t, attempt, index + 1)
     ELSE IF ~TRANSIENT_ERROR_PATTERN(e) THEN ItemThrew(t, e)
     ELSE IF attempt < UPLOAD_MAX_ATTEMPTS
       THEN ItemContinues([t EXCEPT !.retryWaits = Append(@, (attempt + 1) * 1000)],
                          attempt + 1, 0)
     ELSE IF IsParseError(e) THEN ItemProbes(t, "final", 0)
     ELSE ItemThrew(t, e)

\* mutant: uploadWithMimeFallback that waits 1000 ms before every retry
AfterUploadError_ConstantWait(e, t) ==
  LET candidates == getContentTypeCandidates(assets[idx].localPath.rel)
      hasNext == index < Len(candidates) - 1
  IN IF hasNext /\ IsMimeError(e) THEN ItemContinues(t, attempt, index + 1)
     ELSE IF ~TRANSIENT_ERROR_PATTERN(e) THEN ItemThrew(t, e)
     ELSE IF attempt < UPLOAD_MAX_ATTEMPTS - 1
       THEN ItemContinues([t EXCEPT !.retryWaits = Append(@, 1000)], attempt + 1, 0)
     ELSE IF IsParseError(e) THEN ItemProbes(t, "final", 0)
     ELSE ItemThrew(t, e)

\* mutant: uploadWithMimeFallback without the existence check after the loop
AfterUploadError_NoFinalProbe(e, t) ==
  LET candidates == getContentTypeCandidates(assets[idx].localPath.rel)
      hasNext == index < Len(candidates) - 1
  IN IF hasNext /\ IsMimeError(e) THEN ItemContinues(t, attempt, index + 1)
     ELSE IF ~TRANSIENT_ERROR_PATTERN(e) THEN ItemThrew(t, e)
     ELSE IF attempt < UPLOAD_MAX_ATTEMPTS - 1
       THEN ItemContinues([t EXCEPT !.retryWaits = Append(@, (attempt + 1) * 1000)],
                          attempt + 1, 0)
     ELSE ItemThrew(t, e)

\* uploadWithMimeFallback after an upload error e that the existence check
\* did not resolve: next candidate, retry after the backoff wait, the check
\* after the loop, or the throw
AfterUploadError(e, t) ==
  LET candidates == getContentTypeCandidates(assets[idx].localPath.rel)
      hasNext == index < Len(candidates) - 1
  IN IF hasNext /\ IsMimeError(e) THEN ItemContinues(t, attempt, index + 1)
     ELSE IF ~TRANSIENT_ERROR_PATTERN(e) THEN ItemThrew(t, e)
     ELSE IF attempt < UPLOAD_MAX_ATTEMPTS - 1
       THEN ItemContinues([t EXCEPT !.retryWaits = Append(@, (attempt + 1) * 1000)],
                          attempt + 1, 0)
     ELSE IF IsParseError(e) THEN ItemProbes(t, "final", 0)
     ELSE ItemThrew(t, e)

\* options of an upload that asks for overwriting only when it names a content type
uploadOptions_UpsertOnlyWithType(contentType) ==
  [upsert |-> contentType # "undefined", contentType |-> contentType]

\* uploadWithMimeFallback: const options = { upsert: true }, with the
\* content type of the candidate when it has one
uploadOptions(contentType) == [upsert |-> TRUE, contentType |-> contentType]

\* uploadWithMimeFallback: one storage.from(BUCKET).upload(item.uploadPath, data, options)
UploadCall ==
  /\ upc = "upload"
  /\ LET item == assets[idx]
         candidates == getContentTypeCandidates(item.localPath.rel)
         options == uploadOptions(candidates[index + 1])
         called == [Called(trace, "upload") EXCEPT
                      !.uploadCalls[idx] = @ + 1,
                      !.lastUpload = [key |-> item.uploadPath, upsert |-> options.upsert,
                                      contentType |-> options.contentType]]
     IN \E resp \in UploadResponses :
          /\ IF ~bucketExists THEN resp = [error |-> "fatal", stored |-> FALSE] /\ NoFault
             ELSE IF resp.error = "none" THEN NoFault
             ELSE Fault
          /\ store' = IF resp.stored THEN store \cup {item.uploadPath} ELSE store
          /\ IF resp.error = "none"
             THEN /\ ItemSucceeded(called)
                  /\ lastError' = "none"
             ELSE /\ lastError' = resp.error
                  /\ IF IsParseError(resp.error)
                     THEN ItemProbes(Errored(called), "inline", 0)
                     ELSE AfterUploadError(resp.error, Errored(called))
  /\ UNCHANGED <<run, dryRun, configOk, manifestFile, listFrames, listObjects, skipped>>
  /\ UNCHANGED <<bucketExists, firstRun, fs, assets>>
  /\ UNCHANGED notUploadVars

\* checkObjectExists: one storage.from(BUCKET).list(prefix, {limit, search}),
\* and the wait before the next one
ProbeCall ==
  /\ upc = "probe"
  /\ LET called == [Called(trace, "list") EXCEPT !.probed = @ \cup {idx}]
         notFound(t) == IF probeFor = "inline" THEN AfterUploadError(lastError, t)
                        ELSE ItemThrew(t, lastError)
     IN \E resp \in {"none", "transient", "fatal"} :
          /\ IF ~bucketExists THEN resp = "fatal" /\ NoFault
             ELSE IF resp = "none" THEN NoFault
             ELSE Fault
          /\ IF resp = "none"
             THEN IF checkObjectExistsFound(store, assets[idx].uploadPath)
                  THEN ItemSucceeded(called)
                  ELSE notFound(called)
             ELSE IF ~TRANSIENT_ERROR_PATTERN(resp)
                     \/ probeAttempt = PROBE_MAX_ATTEMPTS - 1
                  THEN notFound(Errored(called))
                  ELSE ItemProbes(Errored(called), probeFor, probeAttempt + 1)
  /\ lastError' = IF upc' = "loop" THEN "none" ELSE lastError
  /\ UNCHANGED <<run, dryRun, configOk, manifestFile, listFrames, listObjects, skipped>>
  /\ UNCHANGED <<storeVars, firstRun, fs, assets>>
  /\ UNCHANGED notUploadVars

\* the same command is run again on the unchanged local tree, against the
\* store as the first run left it
StartSecondRun ==
  /\ run = "first"
  /\ upc \in {"done", "aborted"}
  /\ ~dryRun /\ configOk
  /\ run' = "second"
  /\ firstRun' = [outcome |-> upc, uploadedItems |-> trace.uploadedItems,
                  skippedItems |-> trace.skippedItems]
  /\ upc' = "collect"
  /\ assets' = <<>>
  /\ manifestFile' = <<>>
  /\ listFrames' = <<>> /\ listObjects' = <<>> /\ existingSet' = {}
  /\ idx' = 0 /\ uploaded' = 0 /\ skipped' = 0 /\ processed' = 0
  /\ attempt' = 0 /\ index' = 0 /\ lastError' = "none"
  /\ probeFor' = "none" /\ probeAttempt' = 0
  /\ trace' = NoTrace
  /\ UNCHANGED <<dryRun, configOk, storeVars, faults, fs>>
  /\ UNCHANGED notUploadVars

UploadNext ==
  \/ MainCollect \/ MainWriteManifest \/ ListBuckets \/ CreateBucket
  \/ ListObjects \/ LoopSkip \/ LoopRead \/ UploadCall \/ ProbeCall
  \/ MainCompleted \/ StartSecondRun

SpecUpload == UploadInit /\ [][UploadNext]_vars

(***************************************************************************)
(* Migration of a tree of one file against a store that may answer many    *)
(* calls with an error                                                     *)
(***************************************************************************)
\* number of error responses the store gives to a migration of one file
MaxItemFaults == 8

ItemInit ==
  /\ KeyIdle
  /\ bpc = "idle" /\ remaining = {} /\ lastFile = NoFile /\ itemsByPath = <<>>
  /\ assets = <<>>
  /\ fs \in {t \in UploadTrees : Cardinality(t) = 1}
  /\ upc = "collect" /\ run = "first"
  /\ dryRun = FALSE /\ configOk = TRUE
  /\ manifestFile = <<>>
  /\ bucketExists \in BOOLEAN
  /\ store \in IF bucketExists THEN SUBSET UploadKeysOfTree[fs] ELSE {{}}
  /\ listFrames = <<>> /\ listObjects = <<>> /\ existingSet = {}
  /\ idx = 0 /\ uploaded = 0 /\ skipped = 0 /\ processed = 0
  /\ attempt = 0 /\ index = 0 /\ lastError = "none"
  /\ probeFor = "none" /\ probeAttempt = 0
  /\ trace = NoTrace /\ firstRun = NoFirstRun /\ faults = MaxItemFaults
  /\ other = NoProcess
  /\ VerifyIdle
  /\ NormalizeIdle
  /\ CandidatesIdle

SpecItem == ItemInit /\ [][UploadNext]_vars

(***************************************************************************)
(* Two migration processes over the same tree and the same store, their    *)
(* calls of the storage client interleaved                                 *)
(***************************************************************************)
\* number of files in the tree of the two processes
MaxConcFiles == 2

\* number of error responses the store gives to the two processes
MaxConcFaults == 2

ConcInit ==
  /\ KeyIdle
  /\ bpc = "idle" /\ remaining = {} /\ lastFile = NoFile /\ itemsByPath = <<>>
  /\ assets = <<>>
  /\ fs \in {t \in UploadTrees : Cardinality(t) <= MaxConcFiles}
  /\ upc = "collect" /\ run = "first"
  /\ dryRun = FALSE /\ configOk = TRUE
  /\ manifestFile = <<>>
  /\ bucketExists \in BOOLEAN
  /\ store \in IF bucketExists THEN SUBSET UploadKeysOfTree[fs] ELSE {{}}
  /\ listFrames = <<>> /\ listObjects = <<>> /\ existingSet = {}
  /\ idx = 0 /\ uploaded = 0 /\ skipped = 0 /\ processed = 0
  /\ attempt = 0 /\ index = 0 /\ lastError = "none"
  /\ probeFor = "none" /\ probeAttempt = 0
  /\ trace = NoTrace /\ firstRun = NoFirstRun /\ faults = MaxConcFaults
  /\ other = FreshProcess
  /\ VerifyIdle
  /\ NormalizeIdle
  /\ CandidatesIdle

\* the locals of the process whose step comes next
Locals ==
  [upc |-> upc, assets |-> assets, manifestFile |-> manifestFile,
   listFrames |-> listFrames, listObjects |-> listObjects, existingSet |-> existingSet,
   idx |-> idx, uploaded |-> uploaded, skipped |-> skipped, processed |-> processed,
   attempt |-> attempt, index |-> index, lastError |-> lastError,
   probeFor |-> probeFor, probeAttempt |-> probeAttempt, trace |-> trace]

\* the next call of the storage client is made by the other process
Switch ==
  /\ other.upc \notin {"none", "done", "aborted"}
  /\ other' = Locals
  /\ upc' = other.upc /\ assets' = other.assets /\ manifestFile' = other.manifestFile
  /\ listFrames' = other.listFrames /\ listObjects' = other.listObjects
  /\ existingSet' = other.existingSet
  /\ idx' = other.idx /\ uploaded' = other.uploaded /\ skipped' = other.skipped
  /\ processed' = other.processed
  /\ attempt' = other.attempt /\ index' = other.index /\ lastError' = other.lastError
  /\ probeFor' = other.probeFor /\ probeAttempt' = other.probeAttempt
  /\ trace' = other.trace
  /\ UNCHANGED <<run, dryRun, configOk, storeVars, firstRun, faults, fs>>
  /\ UNCHANGED <<keyVars, bpc, remaining, lastFile, itemsByPath, verifyVars, candidateVars>>

ConcNext ==
  \/ MainCollect \/ MainWriteManifest \/ ListBuckets \/ CreateBucket
  \/ ListObjects \/ LoopSkip \/ LoopRead \/ UploadCall \/ ProbeCall
  \/ MainCompleted \/ Switch

SpecConc == ConcInit /\ [][ConcNext]_vars

(***************************************************************************)
(* Verifier: scripts/verify_storage_links.ts                               *)
(***************************************************************************)
STR_http == <<104, 116, 116, 112, 58, 47, 47>>

STR_https == <<104, 116, 116, 112, 115, 58, 47, 47>>

\* `/storage/v1/object/public/${BUCKET}/` with the default bucket name
STR_marker == <<47, 115, 116, 111, 114, 97, 103, 101, 47, 118, 49, 47, 111, 98, 106, 101, 99, 116, 47, 112, 117, 98, 108, 105, 99, 47, 105, 119, 97, 116, 101, 49, 53, 48, 100, 97, 116, 97, 47>>

\* String.prototype.indexOf, 0-based, -1 when absent
IndexOf(s, sub) ==
  LET hits == {i \in 0..(Len(s) - Len(sub)) : SubSeq(s, i + 1, i + Len(sub)) = sub}
  IN IF hits = {} THEN -1 ELSE CHOOSE i \in hits : \A j \in hits : i <= j

\* a database value: null, or a string
NullValue == [null |-> TRUE, s |-> <<>>]

Value(str) == [null |-> FALSE, s |-> str]

\* normalizeStoragePath: the path returned, null, or the URIError thrown by
\* decodeURIComponent
normalizeStoragePath(raw) ==
  LET none == [threw |-> FALSE, null |-> TRUE, s |-> <<>>]
      path(str) == [threw |-> FALSE, null |-> FALSE, s |-> str]
      v == raw.s
  IN IF raw.null \/ v = <<>> THEN none
     ELSE IF StartsWith(v, STR_http) \/ StartsWith(v, STR_https)
       THEN LET markerIndex == IndexOf(v, STR_marker) IN
            IF markerIndex = -1 THEN none
            ELSE LET d == decodeURIComponent(
                            SubSeq(v, markerIndex + Len(STR_marker) + 1, Len(v)))
                 IN IF d.ok THEN path(d.val)
                    ELSE [threw |-> TRUE, null |-> TRUE, s |-> <<>>]
     ELSE IF StartsWith(v, <<Ch.slash>> \o STR_images)
             \/ StartsWith(v, <<Ch.slash>> \o STR_models)
       THEN path(SubSeq(v, 2, Len(v)))
     ELSE IF StartsWith(v, STR_images) \/ StartsWith(v, STR_models) THEN path(v)
     ELSE none

\* src/lib/types.ts normalizeStoragePath: the path without its leading slash
\* when it starts with one of STORAGE_PREFIXES, else null
types_normalizeStoragePath(path) ==
  IF StartsWith(path, <<Ch.slash>> \o STR_images) \/ StartsWith(path, <<Ch.slash>> \o STR_models)
    THEN [null |-> FALSE, s |-> SubSeq(path, 2, Len(path))]
  ELSE IF StartsWith(path, STR_images) \/ StartsWith(path, STR_models)
    THEN [null |-> FALSE, s |-> path]
  ELSE [null |-> TRUE, s |-> <<>>]

\* src/lib/types.ts toStorageObjectPath: the object key the application
\* requests for a database value, or null
toStorageObjectPath(raw) ==
  LET none == [null |-> TRUE, s |-> <<>>]
      v == raw.s
  IN IF raw.null \/ v = <<>> THEN none
     ELSE IF StartsWith(v, STR_http) \/ StartsWith(v, STR_https)
       THEN LET markerIndex == IndexOf(v, STR_marker) IN
            IF markerIndex = -1 THEN none
            ELSE [null |-> FALSE,
                  s |-> encodeStoragePath(SubSeq(v, markerIndex + Len(STR_marker) + 1, Len(v)))]
     ELSE LET normalized == types_normalizeStoragePath(v) IN
          IF normalized.null \/ normalized.s = <<>> THEN none
          ELSE [null |-> FALSE, s |-> encodeStoragePath(normalized.s)]

\* the path fields of a row of each table, in the order main looks at them
FieldsOf(table) ==
  IF table = "spots" THEN <<"image_thumb_path", "image_path", "model_path">>
  ELSE IF table = "characters" THEN <<"model_path", "mtl_path", "thumbnail">>
  ELSE <<"image_thumb_path", "image_path">>

\* main: the test of a canonical key against the object set, and the push
checkCanonical(acc, objects, table, id, field, canonical) ==
  IF canonical \in objects THEN acc
  ELSE [acc EXCEPT !.missing =
          Append(@, [table |-> table, id |-> id, field |-> field, path |-> canonical])]

\* main: `if (!normalized) continue`, then the canonical key
checkNormalized(acc, objects, table, id, field, normalized) ==
  IF normalized.threw THEN [acc EXCEPT !.threw = TRUE]
  ELSE IF normalized.null \/ normalized.s = <<>> THEN acc
  ELSE checkCanonical(acc, objects, table, id, field,
                      canonicalizeStorageKey(normalized.s))

\* main: one path value of a row.  acc is the missing list so far and
\* whether an exception has been thrown
checkValue(acc, objects, table, id, field, value) ==
  IF acc.threw THEN acc
  ELSE checkNormalized(acc, objects, table, id, field, normalizeStoragePath(value))

\* main: the fields of one row, from field number f on
RECURSIVE checkRow(_, _, _, _, _)
checkRow(acc, objects, table, row, f) ==
  IF f > Len(FieldsOf(table)) THEN acc
  ELSE LET field == FieldsOf(table)[f] IN
       checkRow(IF field \in DOMAIN row.paths
                THEN checkValue(acc, objects, table, row.id, field, row.paths[field])
                ELSE acc,
                objects, table, row, f + 1)

\* main: the loop over the rows of one table, from row number r on
RECURSIVE checkRows(_, _, _, _, _)
checkRows(acc, objects, table, rows, r) ==
  IF r > Len(rows) THEN acc
  ELSE checkRows(checkRow(acc, objects, table, rows[r], 1), objects, table, rows, r + 1)

\* main: the loops over the tables named, one after the other
RECURSIVE checkTables(_, _, _, _, _)
checkTables(acc, objects, database, tables, t) ==
  IF t > Len(tables) THEN acc
  ELSE checkTables(checkRows(acc, objects, tables[t], database[tables[t]], 1),
                   objects, database, tables, t + 1)

\* main: new Set(storageObjects.map((obj) => canonicalizeStorageKey(obj)))
canonicalSet(objects) == {canonicalizeStorageKey(objects[i]) : i \in 1..Len(objects)}

\* number of rows in the tables and in characters.ts together
MaxRows == 2

\* the rows the database and characters.ts are drawn from
RowCandidates ==
  { [table |-> "cities", id |-> 1,
     paths |-> [image_thumb_path |-> NullValue,
                image_path |-> Value(<<105, 109, 97, 103, 101, 115, 47, 97, 46, 106, 112, 103>>)]],
    [table |-> "cities", id |-> 2,
     paths |-> [image_thumb_path |-> Value(<<47, 105, 109, 97, 103, 101, 115, 47, 97, 46, 106, 112, 103>>),
                image_path |-> Value(<<>>)]],
    [table |-> "genres", id |-> 1,
     paths |-> [image_thumb_path |-> Value(<<104, 116, 116, 112, 115, 58, 47, 47, 104, 47, 115, 116, 111, 114, 97, 103, 101, 47, 118, 49, 47, 111, 98, 106, 101, 99, 116, 47, 112, 117, 98, 108, 105, 99, 47, 105, 119, 97, 116, 101, 49, 53, 48, 100, 97, 116, 97, 47, 105, 109, 97, 103, 101, 115, 47, 37, 67, 51, 37, 65, 57, 46, 106, 112, 103>>),
                image_path |-> Value(<<119, 97, 110, 107, 111, 46, 112, 110, 103>>)]],
    [table |-> "genres", id |-> 2,
     paths |-> [image_thumb_path |-> NullValue,
                image_path |-> Value(<<104, 116, 116, 112, 115, 58, 47, 47, 104, 47, 105, 109, 97, 103, 101, 115, 47, 97, 46, 106, 112, 103>>)]],
    [table |-> "spots", id |-> 1,
     paths |-> [image_thumb_path |-> NullValue,
                image_path |-> Value(<<105, 109, 97, 103, 101, 115, 47, 233, 46, 106, 112, 103>>),
                model_path |-> Value(<<47, 109, 111, 100, 101, 108, 115, 47, 109, 46, 102, 98, 120>>)]],
    [table |-> "spots", id |-> 2,
     paths |-> [image_thumb_path |-> Value(<<104, 116, 116, 112, 58, 47, 47, 104, 47, 115, 116, 111, 114, 97, 103, 101, 47, 118, 49, 47, 111, 98, 106, 101, 99, 116, 47, 112, 117, 98, 108, 105, 99, 47, 105, 119, 97, 116, 101, 49, 53, 48, 100, 97, 116, 97, 47, 105, 109, 97, 103, 101, 115, 47, 37, 69, 51, 37, 56, 49, 46, 106, 112, 103>>),
                image_path |-> Value(<<105, 109, 97, 103, 101, 115, 47, 97, 46, 106, 112, 103>>),
                model_path |-> Value(<<109, 111, 100, 101, 108, 115, 47, 109, 46, 102, 98, 120>>)]],
    [table |-> "characters", id |-> 1,
     paths |-> [model_path |-> Value(<<109, 111, 100, 101, 108, 115, 47, 109, 46, 102, 98, 120>>),
                thumbnail |-> Value(<<105, 109, 97, 103, 101, 115, 47, 97, 46, 106, 112, 103>>)]] }

\* the sets of at most n rows
RECURSIVE RowSets(_)
RowSets(n) ==
  IF n = 0 THEN {{}}
  ELSE RowSets(n - 1) \cup {rs \cup {x} : rs \in RowSets(n - 1), x \in RowCandidates}

\* the rows of a table, by increasing id
RECURSIVE RowsById(_)
RowsById(rows) ==
  IF rows = {} THEN <<>>
  ELSE LET first == CHOOSE x \in rows : \A y \in rows : x.id <= y.id
       IN <<first>> \o RowsById(rows \ {first})

DbOf(rows) ==
  [cities |-> RowsById({x \in rows : x.table = "cities"}),
   genres |-> RowsById({x \in rows : x.table = "genres"}),
   spots |-> RowsById({x \in rows : x.table = "spots"}),
   characters |-> RowsById({x \in rows : x.table = "characters"})]

\* the keys the bucket of a verifier run is drawn from
VerifyStoreKeys ==
  { <<105, 109, 97, 103, 101, 115, 47, 97, 46, 106, 112, 103>>, <<109, 111, 100, 101, 108, 115, 47, 109, 46, 102, 98, 120>>, canonicalizeStorageKey(<<105, 109, 97, 103, 101, 115, 47, 233, 46, 106, 112, 103>>) }

VerifyInit ==
  /\ KeyIdle /\ BuildIdle
  /\ upc = "idle" /\ run = "first" /\ dryRun = TRUE /\ configOk = FALSE
  /\ manifestFile = <<>>
  /\ listFrames = <<>> /\ listObjects = <<>> /\ existingSet = {}
  /\ idx = 0 /\ uploaded = 0 /\ skipped = 0 /\ processed = 0
  /\ attempt = 0 /\ index = 0 /\ lastError = "none"
  /\ probeFor = "none" /\ probeAttempt = 0
  /\ trace = NoTrace /\ firstRun = NoFirstRun /\ faults = 0
  /\ other = NoProcess
  /\ bucketExists \in BOOLEAN
  /\ store \in IF bucketExists THEN SUBSET VerifyStoreKeys ELSE {{}}
  /\ vpc = "start"
  /\ vConfigOk \in BOOLEAN
  /\ db \in {DbOf(rows) : rows \in RowSets(MaxRows)}
  /\ vListFrames = <<>> /\ vListObjects = <<>> /\ objectSet = {} /\ missing = <<>>
  /\ vtrace = NoVerifyTrace
  /\ NoConcurrentUploader
  /\ NormalizeIdle
  /\ CandidatesIdle

\* main().catch: process.exit(1)
VerifyThrew(t, e) ==
  /\ vpc' = "ended"
  /\ vtrace' = [t EXCEPT !.exitCode = <<1>>, !.thrown = e]

\* main: the test of the configuration and createClient
VerifyStart ==
  /\ vpc = "start"
  /\ IF vConfigOk
     THEN vpc' = "query" /\ vtrace' = vtrace
     ELSE VerifyThrew(vtrace, "config")
  /\ UNCHANGED <<vConfigOk, db, vListFrames, vListObjects, objectSet, missing>>
  /\ UNCHANGED <<storeVars, fs, assets>>
  /\ UNCHANGED notVerifyVars

\* main: the three selects of Promise.all and the tests of their errors;
\* then listAllStorageObjects is entered
VerifyQuery ==
  /\ vpc = "query"
  /\ \E failed \in SUBSET {"cities", "genres", "spots"} :
       IF failed = {}
       THEN /\ vpc' = "list"
            /\ vtrace' = [vtrace EXCEPT !.queries = "ok"]
            /\ vListFrames' = <<[prefix |-> <<>>, offset |-> 0, limit |-> LIST_LIMIT,
                                 entries |-> <<>>, more |-> FALSE, call |-> TRUE]>>
       ELSE /\ VerifyThrew([vtrace EXCEPT !.queries = "failed"],
                           IF "cities" \in failed THEN "cities query failed"
                           ELSE IF "genres" \in failed THEN "genres query failed"
                           ELSE "spots query failed")
            /\ UNCHANGED vListFrames
  /\ UNCHANGED <<vConfigOk, db, vListObjects, objectSet, missing>>
  /\ UNCHANGED <<storeVars, fs, assets>>
  /\ UNCHANGED notVerifyVars

\* main after listAllStorageObjects has returned objs, up to its await of
\* loadCharacterAssetPaths; c is the outcome of the loops over cities,
\* genres and spots
VerifyChecked(t, objs, c) ==
  /\ vListFrames' = <<>>
  /\ vListObjects' = objs
  /\ objectSet' = canonicalSet(objs)
  /\ missing' = c.missing
  /\ IF c.threw THEN VerifyThrew(t, "URIError")
     ELSE vpc' = "characters" /\ vtrace' = t

\* listAllStorageObjects after a list call that returned: r is the stack and
\* the objects collected up to the next call
VerifyListed(t, r) ==
  IF Len(r.frames) > 0
  THEN /\ vListFrames' = r.frames
       /\ vListObjects' = r.objects
       /\ vtrace' = t
       /\ UNCHANGED <<vpc, objectSet, missing>>
  ELSE VerifyChecked([t EXCEPT !.listing = "ok"], r.objects,
                     checkTables([threw |-> FALSE, missing |-> <<>>],
                                 canonicalSet(r.objects), db,
                                 <<"cities", "genres", "spots">>, 1))

\* mutant: the list call of the verifier empties the bucket
afterList_Removes(objects) == {}

\* the bucket after storage.from(BUCKET).list(...)
afterList(objects) == objects

\* mutant: the page is taken from one entry after the offset
verifyListCall_OffsetPlusOne(objects, frame) ==
  ListPage(objects, frame.prefix, frame.offset + 1, frame.limit)

\* the storage call of listAllStorageObjects
verifyListCall(objects, frame) == ListPage(objects, frame.prefix, frame.offset, frame.limit)

\* listAllStorageObjects: one storage.from(BUCKET).list(prefix, {limit, offset, sortBy})
\* and the loops up to the next call; after the last one, main up to
\* its await of loadCharacterAssetPaths: the object set and the loops over
\* cities, genres and spots
VerifyList ==
  /\ vpc = "list"
  /\ \E listError \in BOOLEAN :
       /\ (~bucketExists => listError)
       /\ IF listError
          THEN /\ VerifyThrew([vtrace EXCEPT !.storageCalls = @ \cup {"list"},
                                            !.listCalls = @ + 1,
                                            !.listing = "failed"],
                              "storage list failed")
               /\ UNCHANGED <<vListFrames, vListObjects, objectSet, missing>>
          ELSE VerifyListed([vtrace EXCEPT !.storageCalls = @ \cup {"list"},
                                           !.listCalls = @ + 1],
                            listAdvance(
                              listReturned(vListFrames,
                                verifyListCall(store, vListFrames[Len(vListFrames)])),
                              vListObjects))
  /\ UNCHANGED <<vConfigOk, db>>
  /\ store' = afterList(store)
  /\ UNCHANGED <<bucketExists, fs, assets>>
  /\ UNCHANGED notVerifyVars

\* main after the loop over the character assets with outcome c: the
\* report and the exit
VerifyReport(c) ==
  /\ missing' = c.missing
  /\ IF c.threw THEN VerifyThrew(vtrace, "URIError")
     ELSE /\ vpc' = "ended"
          /\ vtrace' = [vtrace EXCEPT
                          !.reported = TRUE,
                          !.exitCode = IF Len(c.missing) = 0 THEN <<0>> ELSE <<1>>]

\* main from the return of loadCharacterAssetPaths: the loop over the
\* character assets, the report, and the exit
VerifyCharacters ==
  /\ vpc = "characters"
  /\ VerifyReport(checkTables([threw |-> FALSE, missing |-> missing],
                              objectSet, db, <<"characters">>, 1))
  /\ UNCHANGED <<vConfigOk, db, vListFrames, vListObjects, objectSet>>
  /\ UNCHANGED <<storeVars, fs, assets>>
  /\ UNCHANGED notVerifyVars

VerifyNext == VerifyStart \/ VerifyQuery \/ VerifyList \/ VerifyCharacters

SpecVerify == VerifyInit /\ [][VerifyNext]_vars



(***************************************************************************)
(* Either script is run: the migration or the verifier                     *)
(***************************************************************************)
\* number of files of the local tree when either script is run
MaxScriptsFiles == 2

ScriptsInit == (UploadInit /\ Cardinality(fs) <= MaxScriptsFiles) \/ VerifyInit

ScriptsNext == UploadNext \/ VerifyNext

SpecScripts == ScriptsInit /\ [][ScriptsNext]_vars

(***************************************************************************)
(* Verifier over a bucket with folders of a page and more, alone and with  *)
(* another process uploading while it lists                                *)
(***************************************************************************)
\* number of uploads the other process makes during one verifier run
MaxConcurrentUploads == 2

\* three decimal digits
Digits3(i) == <<Ch.zero + (i \div 100), Ch.zero + ((i \div 10) % 10), Ch.zero + (i % 10)>>

\* the objects images/001 ... images/n
PagedKeys(n) == {STR_images \o Digits3(i) : i \in 1..n}

\* sizes of the folder images: none, one full page, a page and one
PagedSizes == {0, LIST_LIMIT, LIST_LIMIT + 1}

\* images/a.jpg, models/m.fbx: objects the rows of the database name
NamedKeys == { <<105, 109, 97, 103, 101, 115, 47, 97, 46, 106, 112, 103>>, <<109, 111, 100, 101, 108, 115, 47, 109, 46, 102, 98, 120>> }

ListingStores == {PagedKeys(n) \cup s : n \in PagedSizes, s \in SUBSET NamedKeys}

\* the keys the other process uploads: before every object of images, an
\* object below the name of an object, a new first folder, the named objects
ConcurrentKeys ==
  { <<105, 109, 97, 103, 101, 115, 47, 48, 48, 48>>, <<105, 109, 97, 103, 101, 115, 47, 48, 53, 48, 47, 120>>, <<97, 47, 98>>, <<105, 109, 97, 103, 101, 115, 47, 97, 46, 106, 112, 103>>, <<109, 111, 100, 101, 108, 115, 47, 109, 46, 102, 98, 120>> }

ListingInit ==
  /\ KeyIdle /\ BuildIdle
  /\ upc = "idle" /\ run = "first" /\ dryRun = TRUE /\ configOk = FALSE
  /\ manifestFile = <<>>
  /\ listFrames = <<>> /\ listObjects = <<>> /\ existingSet = {}
  /\ idx = 0 /\ uploaded = 0 /\ skipped = 0 /\ processed = 0
  /\ attempt = 0 /\ index = 0 /\ lastError = "none"
  /\ probeFor = "none" /\ probeAttempt = 0
  /\ trace = NoTrace /\ firstRun = NoFirstRun /\ faults = 0
  /\ other = NoProcess
  /\ bucketExists = TRUE
  /\ store \in ListingStores
  /\ vpc = "start"
  /\ vConfigOk \in BOOLEAN
  /\ db \in {DbOf(rows) : rows \in RowSets(1)}
  /\ vListFrames = <<>> /\ vListObjects = <<>> /\ objectSet = {} /\ missing = <<>>
  /\ vtrace = NoVerifyTrace
  /\ startStore = store
  /\ concurrentUploads = 0
  /\ NormalizeIdle
  /\ CandidatesIdle

SpecListing == ListingInit /\ [][VerifyNext]_vars

\* the bucket after storage.from(BUCKET).upload(key, ..., {upsert: true}) of
\* another process has succeeded: the object is added or overwritten
afterUpload(objects, key) == objects \cup {key}

\* a successful upload call of a migration process that runs while the
\* verifier lists
ConcurrentUpload ==
  /\ vpc = "list"
  /\ concurrentUploads < MaxConcurrentUploads
  /\ \E key \in ConcurrentKeys : store' = afterUpload(store, key)
  /\ concurrentUploads' = concurrentUploads + 1
  /\ UNCHANGED <<keyVars, buildVars, bucketExists, mainVars, itemVars, trace, firstRun,
                 faults, other, candidateVars, normalizeVars>>
  /\ UNCHANGED <<vpc, vConfigOk, db, vListFrames, vListObjects, objectSet, missing,
                 vtrace, startStore>>

InterleavedNext == VerifyNext \/ ConcurrentUpload

SpecInterleaved == ListingInit /\ [][InterleavedNext]_vars

(***************************************************************************)
(* normalizeStoragePath applied to one database value                      *)
(***************************************************************************)
\* what precedes the bucket marker, or the path, in a database value:
\* nothing, "/", "//", "http://h", "https://h", "ftp://h", "HTTP://h"
NormalizeHeads ==
  { <<>>, <<47>>, <<47, 47>>, <<104, 116, 116, 112, 58, 47, 47, 104>>, <<104, 116, 116, 112, 115, 58, 47, 47, 104>>, <<102, 116, 112, 58, 47, 47, 104>>, <<72, 84, 84, 80, 58, 47, 47, 104>> }

\* nothing, the marker of the bucket, the marker of another bucket
NormalizeMarkers ==
  { <<>>, STR_marker, <<47, 115, 116, 111, 114, 97, 103, 101, 47, 118, 49, 47, 111, 98, 106, 101, 99, 116, 47, 112, 117, 98, 108, 105, 99, 47, 111, 116, 104, 101, 114, 47>> }

\* what follows: a relative path in one of the folders, percent-escapes
\* (well-formed, of a reserved character, cut short, alone), a name outside
\* the folders, a folder name without slash, a slash first, raw non-ASCII,
\* a path that contains the marker
NormalizeTails ==
  { <<>>, <<105, 109, 97, 103, 101, 115, 47, 97, 46, 106, 112, 103>>, <<109, 111, 100, 101, 108, 115, 47, 109, 46, 102, 98, 120>>, <<105, 109, 97, 103, 101, 115, 47, 37, 67, 51, 37, 65, 57, 46, 106, 112, 103>>, <<105, 109, 97, 103, 101, 115, 47, 97, 37, 50, 48, 98, 37, 50, 70, 99, 46, 106, 112, 103>>,
    <<105, 109, 97, 103, 101, 115, 47, 37, 69, 51, 37, 56, 49, 46, 106, 112, 103>>, <<105, 109, 97, 103, 101, 115, 47, 37>>, <<119, 97, 110, 107, 111, 46, 112, 110, 103>>, <<105, 109, 97, 103, 101, 47, 97, 46, 106, 112, 103>>, <<105, 109, 97, 103, 101, 115>>, <<47, 105, 109, 97, 103, 101, 115, 47, 97, 46, 106, 112, 103>>,
    <<105, 109, 97, 103, 101, 115, 47, 233>>, <<105, 109, 97, 103, 101, 115, 47, 37, 50, 53, 52, 49, 46, 106, 112, 103>>,
    <<120>> \o STR_marker \o <<109, 111, 100, 101, 108, 115, 47, 98, 46, 111, 98, 106>> }

NormalizeInputs ==
  {NullValue} \cup
    {Value(h \o m \o t) : h \in NormalizeHeads, m \in NormalizeMarkers, t \in NormalizeTails}

NormalizeInit ==
  /\ KeyIdle /\ BuildIdle /\ UploadIdle /\ VerifyIdle
  /\ npc = "input"
  /\ nRaw \in NormalizeInputs
  /\ nResult = [threw |-> FALSE, null |-> TRUE, s |-> <<>>]
  /\ CandidatesIdle

\* one call normalizeStoragePath(rawPath)
NormalizeCall ==
  /\ npc = "input"
  /\ nResult' = normalizeStoragePath(nRaw)
  /\ npc' = "returned"
  /\ UNCHANGED nRaw
  /\ UNCHANGED notNormalizeVars

NormalizeNext == NormalizeCall

SpecNormalize == NormalizeInit /\ [][NormalizeNext]_vars

(***************************************************************************)
(* getContentTypeCandidates applied to one file path                       *)
(***************************************************************************)
\* directories and basenames without extension: "a", "dir.fbx/b", "m.fbx"
\* (a second extension follows), "" (the basename starts with the dot), "A"
CandidateStems == { <<97>>, <<100, 105, 114, 46, 102, 98, 120, 47, 98>>, <<109, 46, 102, 98, 120>>, <<>>, <<100, 47>>, <<65>> }

\* the extensions of the table of detectContentType, in lower case, some in
\* upper or mixed case, extensions outside the table, and none
CandidateExtensions ==
  { EXT.jpg, EXT.jpeg, EXT.png, EXT.webp, EXT.gif, EXT.svg, EXT.obj, EXT.mtl,
    EXT.fbx, EXT.glb, EXT.gltf,
    <<46, 70, 66, 88>>, <<46, 70, 98, 120>>, <<46, 74, 80, 71>>, <<46, 79, 98, 106>>, <<46, 98, 105, 110>>, <<46, 116, 120, 116>>, <<46, 102, 98, 120, 50>>, <<46>>, <<>> }

CandidateFilePaths == {s \o e : s \in CandidateStems, e \in CandidateExtensions}

CandidatesInit ==
  /\ KeyIdle /\ BuildIdle /\ UploadIdle /\ VerifyIdle /\ NormalizeIdle
  /\ cpc = "input"
  /\ cFilePath \in CandidateFilePaths
  /\ cCandidates = <<>>

\* one call getContentTypeCandidates(item.localPath)
CandidatesCall ==
  /\ cpc = "input"
  /\ cCandidates' = getContentTypeCandidates(cFilePath)
  /\ cpc' = "returned"
  /\ UNCHANGED cFilePath
  /\ UNCHANGED notCandidateVars

CandidatesNext == CandidatesCall

SpecCandidates == CandidatesInit /\ [][CandidatesNext]_vars

(***************************************************************************)
(* Properties of the migration process                                     *)
(***************************************************************************)
Items == 1..Len(assets)

\* C4: in a live run, an item whose uploadPath is in the set built from the
\* initial listing gets no upload call, no existence check and no readFile,
\* and is counted as skipped once the loop has passed it
C4_ListedItemsAreSkipped ==
  /\ skipped = Cardinality(trace.skippedItems)
  /\ \A i \in Items :
       assets[i].uploadPath \in trace.listedSet =>
         /\ trace.uploadCalls[i] = 0
         /\ i \notin trace.probed
         /\ i \notin trace.read
         /\ (i < idx => i \in trace.skippedItems)

\* a live run that listed the store, skipped a listed item and uploaded another
C4_Witness ==
  /\ upc = "done" /\ ~dryRun /\ trace.listing = "ok"
  /\ \E i \in Items : assets[i].uploadPath \in trace.listedSet /\ i \in trace.skippedItems
  /\ \E i \in Items : trace.uploadCalls[i] > 0 /\ i \in trace.uploadedItems

\* C3: after a live run that completed, a second live run on the same tree
\* whose listing of the store succeeded makes no upload call and, once
\* completed, has counted every manifest item as skipped
C3_SecondRunUploadsNothing ==
  (run = "second" /\ firstRun.outcome = "done" /\ trace.listing = "ok") =>
     /\ \A i \in Items : trace.uploadCalls[i] = 0
     /\ uploaded = 0
     /\ (upc = "done" => skipped = Len(assets))

C11_DryRunMakesNoStorageCall ==
  dryRun =>
    /\ trace.calls = {}
    /\ upc \in {"collect", "write", "done"}
    /\ (upc = "done" => manifestFile = <<collectAssets(fs)>>)

\* a dry run over a tree of two files or more has ended
C11_Witness ==
  dryRun /\ upc = "done" /\ Len(assets) >= 2 /\ Len(manifestFile) = 1

\* C20: a missing URL or service role key ends the run with exit status 1 in
\* live mode only, before any call of the storage client; a dry run ends
\* with status 0 whether they are set or not
C20_ConfigRequiredInLiveModeOnly ==
  /\ (~dryRun /\ ~configOk /\ upc \notin {"collect", "write"}) =>
        (upc = "aborted" /\ trace.exitCode = <<1>> /\ trace.calls = {})
  /\ (dryRun /\ upc \notin {"collect", "write"}) =>
        (upc = "done" /\ trace.exitCode = <<0>>)
  /\ trace.thrown = "config" => (~dryRun /\ ~configOk)

\* a live run without configuration has ended
C20_Witness ==
  ~dryRun /\ ~configOk /\ upc = "aborted" /\ trace.thrown = "config" /\ Len(assets) >= 1

\* C19: the step after listBuckets or createBucket is never the end of the
\* run, whatever the response: the run goes on to the listing; createBucket
\* is called at most once, and only from a listBuckets that returned no
\* error and no bucket BUCKET
C19_BucketStepIsBestEffort ==
  [][ /\ (upc = "listBuckets" => upc' \in {"createBucket", "list"})
      /\ (upc = "createBucket" => upc' = "list")
      /\ (upc' = "createBucket" =>
            upc = "listBuckets" /\ ~bucketExists /\ trace'.errors = trace.errors)
      /\ trace'.createCalls <= 1 ]_vars

\* a run whose createBucket failed is in its upload phase
C19_Witness ==
  trace.bucketStep = "createError" /\ upc = "upload" /\ trace.createCalls = 1

\* C14: every upload call carries upsert: true
C14_EveryUploadIsUpsert ==
  "upload" \in trace.calls => trace.lastUpload.upsert

\* an upload call of a retry pass, made with the last candidate (no content type)
C14_Witness ==
  /\ upc \in {"upload", "loop", "probe", "aborted"}
  /\ attempt >= 1
  /\ trace.lastUpload.contentType = "undefined"
  /\ trace.retryWaits # <<>>

\* C12: an upload error that is neither transient nor a MIME rejection with
\* a candidate left ends the run in the step that receives it, with exit
\* status 1; no item after it has been read or uploaded, and the ended
\* process takes no further step
C12_FatalUploadErrorAborts ==
  [][ /\ (/\ upc = "upload"
          /\ lastError' \in ErrorKinds
          /\ ~TRANSIENT_ERROR_PATTERN(lastError')
          /\ ~(/\ IsMimeError(lastError')
               /\ index < Len(getContentTypeCandidates(assets[idx].localPath.rel)) - 1))
         => /\ upc' = "aborted"
            /\ trace'.exitCode = <<1>>
            /\ trace'.thrown = lastError'
            /\ \A i \in Items : i > idx =>
                   trace'.uploadCalls[i] = 0 /\ i \notin trace'.read
      /\ (upc = "aborted" => run' # run) ]_vars

\* a run ended on a non-transient error of the first upload call of an item
\* that is not the last one
C12_Witness ==
  /\ upc = "aborted" /\ trace.thrown = "fatal"
  /\ idx >= 1 /\ idx < Len(assets)
  /\ trace.uploadCalls[idx] = 1

ItemCandidates(i) == getContentTypeCandidates(assets[i].localPath.rel)

\* at most 4 passes, so at most 4 x candidates upload calls for an item
PassBound ==
  /\ attempt < UPLOAD_MAX_ATTEMPTS
  /\ \A i \in Items :
       trace.uploadCalls[i] <= UPLOAD_MAX_ATTEMPTS * Len(ItemCandidates(i))

\* a further pass starts, at the first candidate, only after a
\* transient-classified error
PassOnlyAfterTransient ==
  attempt' > attempt =>
    (attempt' = attempt + 1 /\ index' = 0 /\ TRANSIENT_ERROR_PATTERN(lastError'))

\* how far uploadWithMimeFallback has got with an item: passes, candidates
\* and list calls of the existence check made; k is the number of candidates
ItemRank(pc, a, i, for, pa, k) ==
  LET w == PROBE_MAX_ATTEMPTS + 1 IN
  IF pc = "upload" THEN (a * k + i) * w
  ELSE IF for = "inline" THEN (a * k + i) * w + 1 + pa
  ELSE UPLOAD_MAX_ATTEMPTS * k * w + pa

\* the upload of an item ends: every call it makes takes it further, and
\* how far it can get is bounded
ItemTerminates ==
  /\ upc \in {"upload", "probe"} =>
        ItemRank(upc, attempt, index, probeFor, probeAttempt, Len(ItemCandidates(idx)))
          <= (UPLOAD_MAX_ATTEMPTS * Len(ItemCandidates(idx)) + 1) * (PROBE_MAX_ATTEMPTS + 1)
  /\ (upc \in {"upload", "probe"} /\ upc' \in {"upload", "probe"}) =>
        ItemRank(upc', attempt', index', probeFor', probeAttempt', Len(ItemCandidates(idx)))
          > ItemRank(upc, attempt, index, probeFor, probeAttempt, Len(ItemCandidates(idx)))

\* the 4th pass ended in a transient error other than the parse error: the
\* item fails with that error
FourthPassTransientThrows ==
  (upc = "upload" /\ attempt = UPLOAD_MAX_ATTEMPTS - 1 /\ lastError' = "transient") =>
     (upc' = "aborted" /\ trace'.thrown = "transient")

\* C13 as stated: at most 4 passes and 4 x candidates upload calls for an
\* item, the upload of an item always ends, a further pass starts only after
\* a transient-classified error, and when the 4th pass ends in a transient
\* error (the parse error included, which leads to the check after the loop)
\* the item fails with an error that carries the last error
C13_FourthTransientPassAlwaysFails ==
  /\ []PassBound
  /\ [][ /\ PassOnlyAfterTransient
         /\ FourthPassTransientThrows
         /\ (upc = "probe" /\ probeFor = "final" /\ upc' # "probe") =>
               (upc' = "aborted" /\ trace'.thrown = lastError)
         /\ ItemTerminates ]_vars

\* C13, amended: as above, except that when the last error of the 4th pass
\* is the parse error and the existence check after the loop finds the
\* object the item is taken as uploaded; otherwise the item fails with an
\* error that carries the last error
C13_AtMostFourPasses ==
  /\ []PassBound
  /\ [][ /\ PassOnlyAfterTransient
         /\ FourthPassTransientThrows
         /\ (upc = "probe" /\ probeFor = "final" /\ upc' # "probe") =>
               \/ upc' = "aborted" /\ trace'.thrown = lastError /\ IsParseError(lastError)
               \/ /\ checkObjectExistsFound(store, assets[idx].uploadPath)
                  /\ upc' = "loop" /\ idx \in trace'.uploadedItems
         /\ ItemTerminates ]_vars

\* the item failed in its 4th pass on a transient error, after 4 x candidates
\* upload calls
C13_Witness ==
  /\ upc = "aborted" /\ attempt = UPLOAD_MAX_ATTEMPTS - 1
  /\ trace.thrown = "transient"
  /\ trace.uploadCalls[idx] = UPLOAD_MAX_ATTEMPTS * Len(ItemCandidates(idx))
  /\ Len(trace.retryWaits) = UPLOAD_MAX_ATTEMPTS - 1

\* both processes have completed and every uploadPath of the manifest is stored
BothCompletedStoredAll ==
  (upc = "done" /\ other.upc = "done") =>
     \A i \in Items : assets[i].uploadPath \in store

\* C18: two runs over the same manifest, their storage calls interleaved,
\* never remove an object and add objects at manifest keys only; when both
\* have completed the store holds what it held plus every uploadPath of the
\* manifest
C18_InterleavedRunsConverge ==
  /\ [][ /\ store \subseteq store'
         /\ \A k \in store' : k \in store \/ \E i \in Items : assets[i].uploadPath = k ]_vars
  /\ []BothCompletedStoredAll


\* C21: the manifest file is written exactly once per run, after discovery
\* and before any storage call, in dry-run and in live mode: it is not
\* written and no storage call is made while discovery runs, the step after
\* discovery writes the items discovered, and no later step of the run
\* writes the file again
C21_ManifestWrittenOnce ==
  [][ /\ (upc \in {"collect", "write"} => manifestFile = <<>> /\ trace.calls = {})
      /\ (upc = "write" =>
            /\ manifestFile' = <<collectAssets(fs)>>
            /\ trace'.calls = {}
            /\ upc' \notin {"collect", "write"})
      /\ (upc \notin {"collect", "write"} /\ run' = run) =>
            /\ manifestFile' = manifestFile
            /\ manifestFile = <<assets>>
            /\ upc' \notin {"collect", "write"} ]_vars

\* a live run whose listing failed has ended on an upload error, the
\* manifest of two items or more written once
C21_Witness ==
  /\ upc = "aborted" /\ ~dryRun /\ trace.listing = "failed"
  /\ trace.thrown \in ErrorKinds
  /\ Len(assets) >= 2
  /\ manifestFile = <<assets>>


\* the step is a list call of checkObjectExists that got no error response
\* while the object of the item at hand is in the bucket
ProbeListsObject ==
  /\ upc = "probe"
  /\ trace'.errors = trace.errors
  /\ assets[idx].uploadPath \in store

\* the item at hand is taken as uploaded and the loop goes on to the next item
TakenAsUploaded ==
  /\ upc' = "loop" /\ idx' = idx + 1
  /\ uploaded' = uploaded + 1
  /\ processed' = processed + 1
  /\ idx \in trace'.uploadedItems
  /\ trace'.uploadCalls[idx] = trace.uploadCalls[idx]

\* C23: when an upload got the parse error and the existence check that
\* follows lists the object, the item is taken as uploaded: it is counted in
\* uploaded, the run goes on to the next item, and no upload call is made for
\* the item from then on
C23_ParseErrorWithObjectListed ==
  [][ /\ (ProbeListsObject /\ probeFor = "inline") =>
            (IsParseError(lastError) /\ TakenAsUploaded)
      /\ (run' = run => \A i \in trace.uploadedItems :
                            trace'.uploadCalls[i] = trace.uploadCalls[i]) ]_vars

\* an item was taken as uploaded after one upload call and the existence
\* check, and the run is at a later item
C23_Witness ==
  /\ upc \in {"upload", "probe"}
  /\ \E i \in Items :
       /\ i < idx
       /\ i \in trace.uploadedItems /\ i \in trace.probed
       /\ trace.uploadCalls[i] = 1


\* the step is the one in which the existence check that follows an upload
\* error answers that the object is not there
InlineProbeReturnedFalse ==
  /\ upc = "probe" /\ probeFor = "inline"
  /\ upc' # "loop"
  /\ ~(upc' = "probe" /\ probeFor' = "inline")

\* the pass ends and the next one starts at the first candidate after the
\* backoff wait
RetriedAfterWait ==
  /\ upc' = "upload"
  /\ attempt' = attempt + 1 /\ index' = 0
  /\ trace'.retryWaits = Append(trace.retryWaits, (attempt + 1) * 1000)

\* C24: when an upload got the parse error and the existence check does not
\* find the object, the error is handled as a transient one: the pass ends
\* and the item is retried after the backoff wait, or, in the 4th pass, the
\* loop ends and the check after the loop is made; the run is not aborted in
\* that step
C24_ParseErrorWithoutObjectIsTransient ==
  [][ InlineProbeReturnedFalse =>
        /\ IsParseError(lastError)
        /\ upc' # "aborted"
        /\ IF attempt < UPLOAD_MAX_ATTEMPTS - 1 THEN RetriedAfterWait
           ELSE upc' = "probe" /\ probeFor' = "final" /\ attempt' = attempt ]_vars

\* an item is in a retry pass after a parse error and an existence check
\* that did not find the object
C24_Witness ==
  /\ upc = "upload" /\ attempt >= 1 /\ index = 0
  /\ lastError = "parse"
  /\ idx \in trace.probed
  /\ assets[idx].uploadPath \notin store
  /\ trace.retryWaits # <<>>


\* C25: a MIME rejection of a candidate that is not the last one is followed
\* by the upload with the next candidate in the same pass, without a wait
\* and without a further attempt counted; the run ends on a MIME rejection
\* only when it is that of the last candidate
C25_MimeRejectionTriesNextCandidate ==
  [][ /\ (upc = "upload" /\ lastError' = "mime"
           /\ index < Len(ItemCandidates(idx)) - 1) =>
            /\ upc' = "upload"
            /\ index' = index + 1
            /\ attempt' = attempt
            /\ trace'.retryWaits = trace.retryWaits
            /\ idx' = idx
      /\ (upc = "upload" /\ upc' = "aborted" /\ trace'.thrown = "mime") =>
            index = Len(ItemCandidates(idx)) - 1 ]_vars

\* the third candidate of an .fbx file is about to be tried in the first
\* pass, after two MIME rejections
C25_Witness ==
  /\ upc = "upload" /\ attempt = 0 /\ index = 2
  /\ lastError = "mime"
  /\ trace.uploadCalls[idx] = 2
  /\ trace.retryWaits = <<>>


\* the existence check after the loop is under way
InFinalProbe == upc = "probe" /\ probeFor = "final"

\* C26: the existence check after the loop is made when, and only when, the
\* 4th pass has ended and the last error is the parse error; if it lists the
\* object the item is taken as uploaded, otherwise the item fails with the
\* last error; it is made once; after a 4th pass that ended in an error of
\* another kind the item fails without that check
C26_FinalProbeAfterParseErrorOnly ==
  [][ /\ (InFinalProbe' /\ ~InFinalProbe) =>
            /\ attempt = UPLOAD_MAX_ATTEMPTS - 1
            /\ lastError' = "parse"
            /\ idx' = idx
      /\ (InlineProbeReturnedFalse /\ attempt = UPLOAD_MAX_ATTEMPTS - 1) => InFinalProbe'
      /\ (InFinalProbe /\ ProbeListsObject) => TakenAsUploaded
      /\ (InFinalProbe /\ ~InFinalProbe') =>
            \/ upc' = "loop" /\ idx \in trace'.uploadedItems
            \/ upc' = "aborted" /\ trace'.thrown = "parse"
      /\ (upc = "upload" /\ attempt = UPLOAD_MAX_ATTEMPTS - 1
           /\ lastError' \in ErrorKinds \ {"parse"}) =>
            (~InFinalProbe' /\ (upc' = "aborted" \/ (upc' = "upload" /\ index' = index + 1))) ]_vars

\* the check after the loop is under way for an item whose 4 passes ended
\* in errors and whose object is in the bucket
C26_Witness ==
  /\ InFinalProbe /\ probeAttempt = 0
  /\ attempt = UPLOAD_MAX_ATTEMPTS - 1
  /\ Len(trace.retryWaits) = UPLOAD_MAX_ATTEMPTS - 1
  /\ assets[idx].uploadPath \in store
  /\ idx \notin trace.uploadedItems


\* C27: within a run, the uploadPath of every item counted as uploaded is in
\* the skip cache; every later item with the same uploadPath that the loop
\* has passed is counted as skipped and has no upload call; no two items
\* counted as uploaded have the same uploadPath
C27_UploadedKeyIsCached ==
  /\ uploaded = Cardinality(trace.uploadedItems)
  /\ \A i \in trace.uploadedItems :
       /\ assets[i].uploadPath \in existingSet
       /\ \A j \in Items :
            (j > i /\ assets[j].uploadPath = assets[i].uploadPath) =>
               /\ trace.uploadCalls[j] = 0
               /\ j \notin trace.uploadedItems
               /\ (j < idx => j \in trace.skippedItems)

\* a run has completed in which an item was uploaded whose key the listing
\* did not hold, and a later item with the same key was skipped
C27_Witness ==
  /\ upc = "done" /\ ~dryRun
  /\ \E i, j \in Items :
       /\ i < j
       /\ assets[i].uploadPath = assets[j].uploadPath
       /\ assets[i].uploadPath \notin trace.listedSet
       /\ i \in trace.uploadedItems
       /\ j \in trace.skippedItems


\* the waits made for the item at hand are those of its retries so far: k x
\* 1000 ms before the k-th retry, none before the first pass and none after
\* the 4th
WaitsOfRetries ==
  /\ Len(trace.retryWaits) <= UPLOAD_MAX_ATTEMPTS - 1
  /\ (upc \in {"upload", "probe", "aborted"} /\ idx \in Items) =>
        trace.retryWaits = [k \in 1..attempt |-> k * 1000]

MimeOfExtension(ext) ==
  LET known == { <<EXT.jpg, "image/jpeg">>, <<EXT.jpeg, "image/jpeg">>,
                 <<EXT.png, "image/png">>, <<EXT.webp, "image/webp">>,
                 <<EXT.gif, "image/gif">>, <<EXT.svg, "image/svg+xml">>,
                 <<EXT.obj, "model/obj">>, <<EXT.mtl, "text/plain">>,
                 <<EXT.fbx, "model/fbx">>, <<EXT.glb, "model/gltf-binary">>,
                 <<EXT.gltf, "model/gltf+json">> }
  IN IF \E k \in known : k[1] = ext
     THEN (CHOOSE k \in known : k[1] = ext)[2]
     ELSE "application/octet-stream"

\* C29: the candidates are, in order and without duplicates, for an .fbx
\* file model/fbx, application/octet-stream, text/plain and no content type,
\* and for a file of any other extension the MIME type of the extension and
\* no content type; the last candidate is always no content type
C29_CandidateOrder ==
  cpc = "returned" =>
    LET ext == toLowerCase(extname(cFilePath)) IN
    /\ cCandidates =
         IF ext = <<46, 102, 98, 120>>
         THEN <<"model/fbx", "application/octet-stream", "text/plain", "undefined">>
         ELSE <<MimeOfExtension(ext), "undefined">>
    /\ cCandidates[Len(cCandidates)] = "undefined"
    /\ \A i, j \in 1..Len(cCandidates) : cCandidates[i] = cCandidates[j] => i = j

\* the candidates of a file named with an upper-case .FBX extension have
\* been returned
C29_Witness ==
  /\ cpc = "returned"
  /\ extname(cFilePath) = <<46, 70, 66, 88>>
  /\ Len(cCandidates) = 4


\* no upload call has been made in the run
NoUploadYet == "upload" \notin trace.calls /\ \A i \in Items : trace.uploadCalls[i] = 0

\* C30: in a live run the recursive listing is started once, from the bucket
\* step and before any upload call, and is not started again once it has
\* returned or thrown; the loop over the items starts only after it; the
\* list calls of the listing all precede the first upload call, and the only
\* other list calls are those of checkObjectExists, made after an upload
\* call for the key of the item at hand
C30_ListingTakenOnceBeforeUploads ==
  [][ /\ (upc' = "list" /\ upc # "list") =>
            /\ upc \in {"listBuckets", "createBucket"}
            /\ trace.listing = "none"
      /\ (upc = "list" \/ upc' = "list") => (NoUploadYet /\ trace.listing = "none" /\ ~dryRun)
      /\ (upc = "list" /\ upc' # "list") =>
            (upc' = "loop" /\ idx' = 1 /\ trace'.listing \in {"ok", "failed"}
             /\ trace'.uploadCalls = trace.uploadCalls)
      /\ (trace.listing # "none" /\ run' = run) =>
            (upc' # "list" /\ trace'.listing = trace.listing
             /\ trace'.listedSet = trace.listedSet)
      /\ (upc' \in {"loop", "upload", "probe"} /\ run' = run) => trace'.listing # "none"
      /\ upc = "probe" =>
            ("upload" \in trace.calls /\ idx \in trace'.probed /\ idx' \in {idx, idx + 1}) ]_vars

\* after a listing that returned objects and an upload call, the existence
\* check of an item has made its list call
C30_Witness ==
  /\ ~dryRun /\ trace.listing = "ok" /\ trace.listedSet # {}
  /\ "upload" \in trace.calls
  /\ trace.probed # {}
  /\ upc \in {"loop", "upload", "done"}


\* the canonical keys a verifier run that lists the bucket tests against
VerifierObjectSet == {canonicalizeStorageKey(k) : k \in store}

\* C34 (as claimed): once a live run has completed, the uploadPath of every
\* manifest item is in the store, and a verifier run that lists the store
\* then finds the canonical key of every manifest storagePath in its object
\* set, so it reports none of them missing.
C34_CompletedRunStoresEveryKey ==
  (upc = "done" /\ ~dryRun) =>
    /\ \A i \in Items : assets[i].uploadPath \in store
    /\ \A i \in Items : canonicalizeStorageKey(assets[i].storagePath) \in VerifierObjectSet


\* the folder of the key of the item at hand has an entry of the name of the
\* key's last segment: the object itself, or a folder of objects below it
NameListed ==
  \E k \in store : \/ k = assets[idx].uploadPath
                    \/ StartsWith(k, assets[idx].uploadPath \o <<Ch.slash>>)

\* the step is a list call of checkObjectExists after which it returned true
ProbeReturnedTrue == upc = "probe" /\ upc' = "loop"

\* the step is a list call of checkObjectExists after which it calls list again
ProbeCallsAgain ==
  /\ upc = "probe" /\ upc' = "probe"
  /\ probeFor' = probeFor /\ probeAttempt' = probeAttempt + 1

LoopAccounts ==
  /\ processed = uploaded + skipped
  /\ uploaded = Cardinality(trace.uploadedItems)
  /\ skipped = Cardinality(trace.skippedItems)
  /\ trace.uploadedItems \cap trace.skippedItems = {}
  /\ upc \in {"loop", "upload", "probe", "aborted", "done"} /\ ~dryRun =>
       /\ trace.uploadedItems \cup trace.skippedItems = {i \in Items : i < idx}
       /\ \A i \in Items : i < idx => assets[i].uploadPath \in existingSet
  /\ upc = "done" /\ ~dryRun => uploaded + skipped = Len(assets)

\* C39: at every point of a run processed = uploaded + skipped, and every
\* item the loop is through with has its uploadPath in the skip cache, which
\* no step of the loop takes a key from; when a live run completes,
\* uploaded + skipped is the number of manifest items and uploaded is the
\* number of items for which uploadWithMimeFallback returned.
C39_LoopAccounting ==
  [][ /\ LoopAccounts
      /\ LoopAccounts'
      /\ (upc \in {"loop", "upload", "probe"} /\ run' = run) =>
            existingSet \subseteq existingSet' ]_vars

\* a live run has completed with items skipped from the listing and items
\* uploaded, the cache having grown by the keys uploaded
C39_Witness ==
  /\ upc = "done" /\ ~dryRun
  /\ uploaded > 0 /\ skipped > 0
  /\ processed = Len(assets)
  /\ trace.listedSet # existingSet

(***************************************************************************)
(* Properties of the verifier                                              *)
(***************************************************************************)
\* every path field of every row of the database and of characters.ts
AllFields ==
  {[table |-> t, id |-> db[t][r].id, field |-> f, value |-> db[t][r].paths[f]] :
     <<t, r, f>> \in {x \in {"cities", "genres", "spots", "characters"} \X (1..MaxRows)
                                \X {"image_thumb_path", "image_path", "model_path",
                                     "mtl_path", "thumbnail"} :
                       x[2] \in DOMAIN db[x[1]] /\ x[3] \in DOMAIN db[x[1]][x[2]].paths}}

\* the value of a field normalizes to a path
NormalizesToPath(e) ==
  LET n == normalizeStoragePath(e.value) IN ~n.threw /\ ~n.null /\ n.s # <<>>

\* the records the missing list is to hold: one for each field whose value
\* normalizes to a path with a canonical key that the listing set lacks
ExpectedMissing ==
  {[table |-> e.table, id |-> e.id, field |-> e.field,
    path |-> canonicalizeStorageKey(normalizeStoragePath(e.value).s)] :
     e \in {x \in AllFields :
              /\ NormalizesToPath(x)
              /\ canonicalizeStorageKey(normalizeStoragePath(x.value).s) \notin objectSet}}

\* the missing list holds each expected record once and no other record
MissingListIsExact ==
  /\ \A e \in ExpectedMissing : Cardinality({i \in DOMAIN missing : missing[i] = e}) = 1
  /\ \A i \in DOMAIN missing : missing[i] \in ExpectedMissing

\* C15: a verifier run that has queried the rows and listed the bucket ends
\* with a missing list that holds exactly one record for each (table, id,
\* field) whose value normalizes to a path with a canonical key absent from
\* the canonicalized listing set, and no record for any other field
C15_MissingListIsExact ==
  (vpc = "ended" /\ vtrace.queries = "ok" /\ vtrace.listing = "ok") => MissingListIsExact

\* C16: the verifier exits with status 1 whenever its missing list is not
\* empty, and with status 0 when the list is empty and neither a query nor
\* the listing has failed
C16_ExitStatusFollowsMissingList ==
  vpc = "ended" =>
    /\ (Len(missing) > 0 => vtrace.exitCode = <<1>>)
    /\ (Len(missing) = 0 /\ vtrace.queries = "ok" /\ vtrace.listing = "ok"
          => vtrace.exitCode = <<0>>)

\* the only storage operations of the verifier are list calls
OnlyListCalls == vtrace.storageCalls \subseteq {"list"}

\* C17: no step of a verifier run changes the bucket or its contents, and
\* the only storage operations of the run are list calls
C17_VerifierNeverMutatesStorage ==
  /\ [][store' = store /\ bucketExists' = bucketExists]_vars
  /\ []OnlyListCalls

\* a run over a bucket with objects has listed folder after folder, found
\* assets missing, and reported them
C17_Witness ==
  /\ vpc = "ended" /\ vtrace.reported
  /\ vtrace.listCalls >= 2
  /\ store # {}
  /\ Len(missing) > 0


\* the value is an http or https URL that contains the marker of the bucket
IsBucketUrl(v) ==
  /\ StartsWith(v, STR_http) \/ StartsWith(v, STR_https)
  /\ \E i \in 1..(Len(v) - Len(STR_marker) + 1) :
       SubSeq(v, i, i + Len(STR_marker) - 1) = STR_marker

\* the text after the first marker of the bucket in the value
AfterMarker(v) ==
  LET first == CHOOSE i \in 1..(Len(v) - Len(STR_marker) + 1) :
                 /\ SubSeq(v, i, i + Len(STR_marker) - 1) = STR_marker
                 /\ \A j \in 1..(i - 1) : SubSeq(v, j, j + Len(STR_marker) - 1) # STR_marker
  IN SubSeq(v, first + Len(STR_marker), Len(v))

\* the call returned the path p
ReturnedPath(p) == nResult = [threw |-> FALSE, null |-> FALSE, s |-> p]

\* the call returned null
ReturnedNull == nResult = [threw |-> FALSE, null |-> TRUE, s |-> <<>>]

\* C22: normalizeStoragePath returns, for an http(s) URL that contains the
\* marker of the bucket, the percent-decoded text after the marker; for a
\* path that starts with /images/ or /models/, the path without its leading
\* slash; for a path that starts with images/ or models/, the path itself;
\* and null for every other input
C22_NormalizeReturns ==
  npc = "returned" =>
    IF nRaw.null \/ nRaw.s = <<>> THEN ReturnedNull
    ELSE IF IsBucketUrl(nRaw.s)
      THEN \E d \in {decodeURIComponent(AfterMarker(nRaw.s))} : d.ok /\ ReturnedPath(d.val)
    ELSE IF StartsWith(nRaw.s, <<47, 105, 109, 97, 103, 101, 115, 47>>) \/ StartsWith(nRaw.s, <<47, 109, 111, 100, 101, 108, 115, 47>>)
      THEN ReturnedPath(Tail(nRaw.s))
    ELSE IF StartsWith(nRaw.s, <<105, 109, 97, 103, 101, 115, 47>>) \/ StartsWith(nRaw.s, <<109, 111, 100, 101, 108, 115, 47>>)
      THEN ReturnedPath(nRaw.s)
    ELSE ReturnedNull

\* C40 (as claimed): for every database value that is a public URL of the
\* bucket, the key the verifier tests, canonicalizeStorageKey of the decoded
\* text after the marker, equals the object key the application requests for
\* the same value, toStorageObjectPath of it; a suffix with %2F or with a
\* doubly encoded percent sign included
C40_VerifierKeyIsApplicationKey ==
  (npc = "returned" /\ IsBucketUrl(nRaw.s)) =>
    /\ ~nResult.threw
    /\ ~nResult.null
    /\ ~toStorageObjectPath(nRaw).null
    /\ canonicalizeStorageKey(nResult.s) = toStorageObjectPath(nRaw).s

\* C33 (as claimed): no path value makes the verifier raise: a run whose
\* queries and listing succeeded handles every field (skipped, found, or
\* collected into the missing list) and ends with its bulk report, whatever
\* the values of the rows are.
C33_NoValueMakesVerifierRaise ==
  /\ vtrace.thrown # "URIError"
  /\ (vpc = "ended" /\ vtrace.queries = "ok" /\ vtrace.listing = "ok") => vtrace.reported


\* the keys the listing returned
ListedKeys == {vListObjects[i] : i \in 1..Len(vListObjects)}

\* C35: with another process uploading while the verifier lists (objects
\* are added or overwritten, none is removed), a listing that returns holds
\* every key that was in the bucket when the run began, so the missing list
\* has no record for such a key.
C35_ListingKeepsStartObjects ==
  vtrace.listing = "ok" =>
    /\ startStore \subseteq ListedKeys
    /\ \A i \in DOMAIN missing : \A k \in startStore :
         missing[i].path # canonicalizeStorageKey(k)

\* two uploads during the listing of a folder of more than a page: the upload
\* of images/000 moved the entries along, so a key was returned twice, and
\* images/a.jpg, named by the database and on the second page, is not missing
C35_Witness ==
  /\ vpc = "ended" /\ vtrace.reported
  /\ concurrentUploads = MaxConcurrentUploads
  /\ <<105, 109, 97, 103, 101, 115, 47, 48, 48, 48>> \in store \ startStore
  /\ <<105, 109, 97, 103, 101, 115, 47, 97, 46, 106, 112, 103>> \in startStore
  /\ Cardinality(startStore) > LIST_LIMIT
  /\ \E i, j \in 1..Len(vListObjects) : i < j /\ vListObjects[i] = vListObjects[j]
  /\ Len(db.cities) > 0
  /\ missing = <<>>

\* the prefixes a key lies below
PrefixesOf(k) == {SubSeq(k, 1, i - 1) : i \in {j \in 1..Len(k) : k[j] = Ch.slash}}

\* the number of list calls for a folder of n entries: pages of LIST_LIMIT
\* until one is empty or shorter
PagesOf(n) == (n \div LIST_LIMIT) + 1

RECURSIVE CallsFor(_, _)
CallsFor(prefixes, objects) ==
  IF prefixes = {} THEN 0
  ELSE LET p == CHOOSE x \in prefixes : TRUE
       IN PagesOf(Cardinality(ListEntries(objects, p))) + CallsFor(prefixes \ {p}, objects)

\* the list calls of a listing of the whole bucket
ExpectedListCalls == CallsFor({<<>>} \cup UNION {PrefixesOf(k) : k \in store}, store)

\* C36: for a bucket that is not modified, a listing that returns holds the
\* full key of every object exactly once and nothing else; it has made, for
\* the root and for every folder, one list call per page of 100 entries until
\* a page came back empty or shorter than 100, and it never makes more calls
\* than that (so it terminates); a list call that returns an error ends the
\* run with the error storage list failed.
C36_ListingIsExact ==
  /\ vtrace.listing = "ok" =>
       /\ ListedKeys = store
       /\ Len(vListObjects) = Cardinality(store)
       /\ vtrace.listCalls = ExpectedListCalls
  /\ vtrace.listCalls > 0 => vtrace.listCalls <= ExpectedListCalls
  /\ \A i \in 1..Len(vListFrames) :
       vListFrames[i].limit = LIST_LIMIT /\ vListFrames[i].offset % LIST_LIMIT = 0
  /\ vtrace.listing = "failed" =>
       /\ vpc = "ended" /\ vtrace.thrown = "storage list failed"
       /\ vtrace.exitCode = <<1>> /\ ~vtrace.reported

\* a listing of the root, of images (a page of 100 and a page of 2) and of
\* models has returned 103 keys in 4 calls
C36_Witness ==
  /\ vtrace.listing = "ok"
  /\ Cardinality(ListEntries(store, <<105, 109, 97, 103, 101, 115>>)) = LIST_LIMIT + 2
  /\ vtrace.listCalls = 4
  /\ Len(vListObjects) = LIST_LIMIT + 3


\* the items the loop of main is through with
ProcessedItems == {i \in Items : i < idx \/ upc = "done"}

\* C37: a live migration run whose listing failed is not ended by it: its
\* skip cache starts empty and holds the keys the run uploaded, every item
\* the loop is through with got an upload call, with upsert, unless an
\* earlier item of the run uploaded its key, and the run ends early only on an
\* upload of the item at hand; a verifier run whose listing failed has ended
\* with exit status 1 and without report.
C37_ListingFailureIsFatalInVerifierOnly ==
  /\ (~dryRun /\ trace.listing = "failed") =>
        /\ upc \in {"loop", "upload", "probe", "done", "aborted"}
        /\ existingSet = {assets[i].uploadPath : i \in trace.uploadedItems}
        /\ \A i \in ProcessedItems :
             IF \E j \in 1..(i - 1) : assets[j].uploadPath = assets[i].uploadPath
             THEN i \in trace.skippedItems /\ trace.uploadCalls[i] = 0
             ELSE i \in trace.uploadedItems /\ trace.uploadCalls[i] > 0
        /\ ("upload" \in trace.calls => trace.lastUpload.upsert)
        /\ (upc = "aborted" => idx \in Items /\ trace.uploadCalls[idx] > 0)
  /\ vtrace.listing = "failed" =>
        /\ vpc = "ended" /\ vtrace.exitCode = <<1>> /\ ~vtrace.reported
        /\ vtrace.thrown = "storage list failed"

\* a live run over a bucket that held objects: its listing failed, and it
\* has uploaded every item of a manifest of two or more, none skipped
C37_Witness ==
  /\ ~dryRun /\ trace.listing = "failed" /\ upc = "done"
  /\ trace.storeAtStart # {}
  /\ Len(assets) >= 2
  /\ uploaded = Len(assets) /\ skipped = 0
  /\ \A i \in Items : assets[i].uploadPath \in store

(***************************************************************************)
(* Properties of the manifest builder                                      *)
(***************************************************************************)
\* the items the builder makes for one file (full, and thumb alias if any)
ItemsOfFile ==
  [f \in CandidateFiles \cup {NoFile} |->
     LET m == collectFile(<<>>, f) IN {m[i].value : i \in 1..Len(m)}]

ItemsOf(f) == ItemsOfFile[f]

\* the files whose insertion has been carried out
Inserted == fs \ remaining

EntriesAt(m, k) == {i \in 1..Len(m) : m[i].key = k}

\* C6: once a legacy item and a public item with the same storagePath have both
\* been inserted, in either order, the map holds exactly one entry for that
\* storagePath and its source is legacy.
C6_LegacyWins ==
  \A f \in Inserted, g \in Inserted :
    \A a \in ItemsOf(f), b \in ItemsOf(g) :
      a.source = "legacy" /\ b.source = "public" /\ a.storagePath = b.storagePath
        => /\ Cardinality(EntriesAt(itemsByPath, a.storagePath)) = 1
           /\ MapGet(itemsByPath, a.storagePath).source = "legacy"

\* the public image cities/x.jpg was inserted first and the legacy image
\* city_images/x.jpg after it: the legacy item has replaced the public one
C6_Witness ==
  /\ lastFile.root = "legacyImages"
  /\ \E g \in Inserted : g.root = "publicImages" /\
       \E a \in ItemsOf(lastFile), b \in ItemsOf(g) :
         /\ a.storagePath = b.storagePath
         /\ a.variant = "full" /\ b.variant = "full"
         /\ MapGet(itemsByPath, a.storagePath).localPath = LocalPath(lastFile)

\* C7: no two entries of the dedup map, nor of the returned manifest, share a
\* storagePath; every entry is filed under its own storagePath and its
\* uploadPath is the canonicalization of its storagePath.
C7_UniqueAndCanonical ==
  /\ \A i, j \in 1..Len(itemsByPath) :
       i # j => itemsByPath[i].key # itemsByPath[j].key
  /\ \A i \in 1..Len(itemsByPath) :
       /\ itemsByPath[i].key = itemsByPath[i].value.storagePath
       /\ itemsByPath[i].value.uploadPath = toUploadKey(itemsByPath[i].value.storagePath)
  /\ \A i, j \in 1..Len(assets) :
       i # j => assets[i].storagePath # assets[j].storagePath
  /\ \A i \in 1..Len(assets) :
       assets[i].uploadPath = toUploadKey(assets[i].storagePath)

\* a finished build that merged colliding files and holds a thumb alias whose
\* key had to be hex-encoded
C7_Witness ==
  /\ bpc = "done"
  /\ \E f \in fs, g \in fs :
       f # g /\ \E a \in ItemsOf(f), b \in ItemsOf(g) : a.storagePath = b.storagePath
  /\ \E i \in 1..Len(assets) :
       assets[i].variant = "thumb" /\ assets[i].uploadPath # assets[i].storagePath

\* C8 (as claimed): every entry under images/ and not under images/thumb/ has
\* an entry at images/thumb/<rest> with the identical localPath and bytes.
C8_ThumbSiblingOfEveryImage ==
  \A i \in 1..Len(itemsByPath) :
    LET e == itemsByPath[i].value IN
    toThumbStoragePath(e.storagePath) # <<>> =>
      \E j \in 1..Len(itemsByPath) :
        /\ itemsByPath[j].key = toThumbStoragePath(e.storagePath)
        /\ itemsByPath[j].value.localPath = e.localPath
        /\ itemsByPath[j].value.bytes = e.bytes

\* C9: every entry with variant thumb at images/thumb/<rest> has a sibling
\* with variant full at images/<rest> with the same localPath, bytes and source.
C9_ThumbHasFullSibling ==
  \A i \in 1..Len(itemsByPath) :
    LET t == itemsByPath[i].value IN
    t.variant = "thumb" =>
      /\ StartsWith(t.storagePath, STR_images_thumb)
      /\ \E j \in 1..Len(itemsByPath) :
           LET e == itemsByPath[j].value IN
           /\ e.variant = "full"
           /\ e.storagePath = STR_images
                \o SubSeq(t.storagePath, Len(STR_images_thumb) + 1, Len(t.storagePath))
           /\ e.localPath = t.localPath
           /\ e.bytes = t.bytes
           /\ e.source = t.source

\* a legacy image inserted after a public image of the same storagePath: the
\* full entry and the thumb alias have both been replaced by the legacy file
C9_Witness ==
  /\ lastFile.root = "legacyImages"
  /\ \E g \in Inserted : g.root = "publicImages" /\
       \E a \in ItemsOf(lastFile), b \in ItemsOf(g) :
         /\ a.variant = "thumb" /\ b.variant = "thumb"
         /\ a.storagePath = b.storagePath
         /\ MapGet(itemsByPath, a.storagePath) = a

\* C10 (as claimed): for a fixed set of files the returned manifest is the same
\* list whatever order the walk yields the files of a root in: it is the list
\* built from the sorted walk.
C10_SameManifestForEveryWalk ==
  bpc = "done" => assets = CollectInOrder(SortedWalk(fs), <<>>)

\* every segment of k, as split on "/", matches [A-Za-z0-9._-]+
AllSegmentsSafe(k) ==
  LET segs == Split(k)
  IN \A i \in 1..Len(segs) :
       Len(segs[i]) > 0 /\ \A j \in 1..Len(segs[i]) : SafeChar(segs[i][j])

\* C1: the three copies of the canonicalizer return the same object key for
\* every input path: the key uploaded under, the key the verifier tests and
\* the key the application requests are equal.
C1_SameKeySpace ==
  /\ kpc \in {"verified", "done"} => verifierKey = uploadKey
  /\ kpc = "done" => appKey = uploadKey /\ appKey = verifierKey

\* an input that takes the hex-encoding branch and the decode branch is canonicalized
C1_Witness ==
  /\ kpc = "done"
  /\ rawPath = <<47, 37, 67, 51, 37, 65, 57, 46>>
  /\ uploadKey = <<117, 99, 51, 97, 57, 50, 101>>
  /\ appKey = uploadKey

\* C2: canonicalization is idempotent: a key whose segments all match
\* [A-Za-z0-9._-]+ canonicalizes to itself, and canonicalizing the key
\* produced for any input path returns that key.
C2_Idempotent ==
  /\ kpc # "input" /\ AllSegmentsSafe(rawPath) => uploadKey = rawPath
  /\ kpc # "input" => AllSegmentsSafe(uploadKey) \/ uploadKey = <<>>
  /\ kpc \in {"listed", "verified", "done"} => listedKey = uploadKey

\* an unsafe input whose key differs from it has been re-canonicalized
C2_Witness ==
  /\ kpc = "listed"
  /\ rawPath = <<37, 50, 53, 52, 49>>
  /\ uploadKey # rawPath
  /\ listedKey = uploadKey


\* the segment the specification prescribes for one non-empty input segment
PrescribedSegment(seg) ==
  LET r == decodeURIComponent(seg)
      decoded == IF r.ok THEN r.val ELSE seg
  IN IF Len(decoded) > 0 /\ \A j \in 1..Len(decoded) : SafeChar(decoded[j])
     THEN decoded
     ELSE <<Ch.u>> \o HexOfUtf8(decoded)

\* C31: toUploadKey returns a key for every input path (it never raises):
\* the key is the non-empty "/"-separated segments of the input, each
\* percent-decoded (the raw segment when decoding fails), kept when the decoded
\* segment matches [A-Za-z0-9._-]+ and otherwise replaced as a whole by "u"
\* and the lowercase hex of its UTF-8 bytes, joined by "/"; every segment of
\* the key matches the safe pattern.
C31_UploadKeyPerSegment ==
  kpc # "input" =>
    LET segs == FilterBoolean(Split(rawPath))
        out == Split(uploadKey)
    IN /\ Len(segs) = 0 => uploadKey = <<>>
       /\ Len(segs) > 0 =>
            /\ Len(out) = Len(segs)
            /\ \A i \in 1..Len(segs) : out[i] = PrescribedSegment(segs[i])
            /\ AllSegmentsSafe(uploadKey)

\* "%C3/." : the first segment does not decode and is hex-encoded raw, the
\* second is safe and kept
C31_Witness ==
  /\ kpc = "uploaded"
  /\ rawPath = <<37, 67, 51, 47, 46>>
  /\ uploadKey = <<117, 50, 53, 52, 51, 51, 51, 47, 46>>


\* the category directory of a legacy image, given the directory name the rule
\* table is looked up with
CategoryOf(dirName) ==
  IF dirName = STR_city_images THEN STR_images_cities
  ELSE IF dirName = STR_genre_images THEN STR_images_genres
  ELSE IF dirName = STR_spot_images THEN STR_images_spots
  ELSE STR_images_other

\* the first directory component of a relative path, with its trailing slash
FirstDirName(rel) ==
  IF \E i \in 1..Len(rel) : rel[i] = Ch.slash
  THEN SubSeq(rel, 1, CHOOSE i \in 1..Len(rel) :
                        rel[i] = Ch.slash /\ \A j \in 1..(i - 1) : rel[j] # Ch.slash)
  ELSE <<>>

\* the storagePath of the full item of a file, the legacy rule table being
\* looked up with dirName
StoragePathOf(root, rel, dirName) ==
  IF root = "legacyImages" THEN CategoryOf(dirName) \o basename(rel)
  ELSE IF root = "publicImages" THEN STR_images \o rel
  ELSE STR_models \o rel

\* a file collectAssets makes an item for
IsAsset(f) ==
  IF f.root \in {"legacyImages", "publicImages"} THEN isImage(f.rel) ELSE isModel(f.rel)

\* C32 (as claimed): a legacy image is mapped by the name of its immediate
\* parent directory: city_images to images/cities/<basename>, genre_images to
\* images/genres/<basename>, spot_images to images/spots/<basename>, any other
\* to images/other/<basename>; a current-tree image keeps its relative path
\* under images/ and a model of either root its relative path under models/.
C32_MappedByImmediateParent ==
  /\ \A i \in 1..Len(itemsByPath) :
       LET e == itemsByPath[i].value IN
       e.variant = "full" =>
         e.storagePath = StoragePathOf(e.localPath.root, e.localPath.rel,
                                       ParentDirName(e.localPath.rel))
  /\ \A f \in Inserted :
       IsAsset(f) => MapHas(itemsByPath, StoragePathOf(f.root, f.rel, ParentDirName(f.rel)))

\* C32 (amended): a legacy image is mapped by the first directory component
\* of its path relative to the legacy image root: city_images/ to
\* images/cities/<basename>, genre_images/ to images/genres/<basename>,
\* spot_images/ to images/spots/<basename>, any other to
\* images/other/<basename>; a current-tree image keeps its relative path under
\* images/ and a model of either root its relative path under models/.
C32_MappedByFirstDirectory ==
  /\ \A i \in 1..Len(itemsByPath) :
       LET e == itemsByPath[i].value IN
       e.variant = "full" =>
         e.storagePath = StoragePathOf(e.localPath.root, e.localPath.rel,
                                       FirstDirName(e.localPath.rel))
  /\ \A f \in Inserted :
       IsAsset(f) => MapHas(itemsByPath, StoragePathOf(f.root, f.rel, FirstDirName(f.rel)))
  /\ \A i \in 1..Len(assets) :
       assets[i].variant = "full" =>
         assets[i].storagePath = StoragePathOf(assets[i].localPath.root, assets[i].localPath.rel,
                                               FirstDirName(assets[i].localPath.rel))

\* the manifest of a tree with the nested legacy image city_images/s/x.jpg, a
\* legacy model and a current-tree image: the nested image is filed under
\* images/cities/
C32_Witness ==
  /\ bpc = "done"
  /\ \E i \in 1..Len(assets) :
       /\ assets[i].localPath = [root |-> "legacyImages", rel |-> <<99, 105, 116, 121, 95, 105, 109, 97, 103, 101, 115, 47, 115, 47, 120, 46, 106, 112, 103>>]
       /\ assets[i].variant = "full"
       /\ assets[i].storagePath = <<105, 109, 97, 103, 101, 115, 47, 99, 105, 116, 105, 101, 115, 47, 120, 46, 106, 112, 103>>
  /\ \E i \in 1..Len(assets) :
       assets[i].localPath.root = "legacyModels" /\ assets[i].storagePath = <<109, 111, 100, 101, 108, 115, 47, 109, 46, 102, 98, 120>>
  /\ \E i \in 1..Len(assets) :
       /\ assets[i].localPath = [root |-> "publicImages", rel |-> <<111, 116, 104, 101, 114, 47, 119, 97, 110, 107, 111, 46, 112, 110, 103>>]
       /\ assets[i].storagePath = <<105, 109, 97, 103, 101, 115, 47, 111, 116, 104, 101, 114, 47, 119, 97, 110, 107, 111, 46, 112, 110, 103>>

====
